---- MODULE Spec2Model ----
(***************************************************************************)
(* Model of the CSV conversion-event senders: LinkedInCAPISender           *)
(* (src/linkedin-capi-sender.js, batched channel with one retry pass) and  *)
(* WebhookSender (src/unnamed/part_000, second class, one call per         *)
(* record), with the record validator and the payload builders they share. *)
(*                                                                         *)
(* Representation.                                                         *)
(*  - A JavaScript string is a sequence of tokens, each a TLA+ string: a   *)
(*    one-character string, or a maximal run of decimal digits (with its   *)
(*    decimal point) written as one token such as "1780704000000", or an   *)
(*    ISO-8601 date written as one token.                                  *)
(*  - A record is a function from its column names to strings; a column    *)
(*    the CSV header lacks is outside its domain (undefined in the code).  *)
(*    In the runs of the CSV parser the column names are the header        *)
(*    strings that were read, as token sequences.                          *)
(*  - The 90-day window is 90*24*60*60*1000 = 7776000000 ms, more than a   *)
(*    32-bit integer holds.  A time t is written [q, r] and stands for     *)
(*    q * 7776000000 + r milliseconds, with r small, so that subtracting   *)
(*    the window is q - 1 and comparisons are lexicographic.               *)
(*  - An object reference to a parsed record is its row number in csvData. *)
(***************************************************************************)
EXTENDS Integers, Sequences, FiniteSets, TLC

VARIABLES
  sender,             \* which program runs: "linkedin", "webhook" or "validator"
  csvData,            \* this.csvData: the parsed records, in row order
  useConversionTime,  \* this.useConversionTime
  resetOldTimestamps, \* this.resetOldTimestamps
  eventsPerBatch,     \* this.eventsPerBatch
  clock,              \* Date.now(), as a time [q, r]
  isRunning,          \* this.isRunning
  pc,                 \* position of the dispatch loop
  pass,               \* "first" or "retry" (sendRecordsBatch)
  sentRecords,        \* this.sentRecords
  failedRecords,      \* this.failedRecords (linkedin) / this.errors (webhook)
  successfulEvents,   \* this.successfulEvents
  pending,            \* recordsToProcess / recordsToRetry (linkedin); loop index i (webhook)
  batchIndex,         \* batchIndex / retryBatchIndex
  inflight,           \* the network call awaiting its response
  skippedRecords,     \* skippedRecords (webhook)
  hist,               \* history of the run: what each step did (not program state)
  probe,              \* validator / parser run: the input and the result of the last call
  totalRecords,       \* this.totalRecords
  debugConversionTime, \* this.debugConversionTime: events logged so far, up to 3
  latencies           \* the response times (ms) the endpoint can show in this run

vars == <<sender, csvData, useConversionTime, resetOldTimestamps, eventsPerBatch,
          clock, isRunning, pc, pass, sentRecords, failedRecords,
          successfulEvents, pending, batchIndex, inflight, skippedRecords,
          hist, probe, totalRecords, debugConversionTime, latencies>>

-----------------------------------------------------------------------------
(* Bounds of the model *)

MaxRecords == 2   \* longest csvData
MaxContent == 6   \* longest CSV file content, in characters
MaxValue == 3     \* longest field value the generator writes, in characters
MaxFields == 2    \* most fields of a generated row

-----------------------------------------------------------------------------
(* Strings *)

Whitespace == {" ", "\n"}

RECURSIVE TrimLeft(_)
TrimLeft(s) ==
  IF s # <<>> /\ Head(s) \in Whitespace THEN TrimLeft(Tail(s)) ELSE s

RECURSIVE TrimRight(_)
TrimRight(s) ==
  IF s # <<>> /\ s[Len(s)] \in Whitespace
    THEN TrimRight(SubSeq(s, 1, Len(s) - 1))
    ELSE s

\* String.prototype.trim
Trim(s) == TrimRight(TrimLeft(s))

LowerLetters == <<"a","b","c","d","e","f","g","h","i","j","k","l","m",
                  "n","o","p","q","r","s","t","u","v","w","x","y","z">>
UpperLetters == <<"A","B","C","D","E","F","G","H","I","J","K","L","M",
                  "N","O","P","Q","R","S","T","U","V","W","X","Y","Z">>

IsLower(c) == \E k \in 1..Len(LowerLetters) : LowerLetters[k] = c
IsUpper(c) == \E k \in 1..Len(UpperLetters) : UpperLetters[k] = c

\* String.prototype.toUpperCase / toLowerCase, token by token
toUpperCase(s) ==
  [k \in 1..Len(s) |->
     IF IsLower(s[k])
       THEN UpperLetters[CHOOSE j \in 1..Len(LowerLetters) : LowerLetters[j] = s[k]]
       ELSE s[k]]

toLowerCase(s) ==
  [k \in 1..Len(s) |->
     IF IsUpper(s[k])
       THEN LowerLetters[CHOOSE j \in 1..Len(UpperLetters) : UpperLetters[j] = s[k]]
       ELSE s[k]]

\* record.f in JavaScript: undefined and '' are both falsy, and every use
\* in the senders treats them alike (record.f && ..., record.email || '').
Field(record, f) == IF f \in DOMAIN record THEN record[f] ELSE <<>>

\* record[f] && record[f].trim() !== ''
NonBlank(record, f) == Field(record, f) # <<>> /\ Trim(Field(record, f)) # <<>>

-----------------------------------------------------------------------------
(* Numbers *)

NaN == [nan |-> TRUE, q |-> 0, r |-> 0]
Num(q, r) == [nan |-> FALSE, q |-> q, r |-> r]

\* a <= b for two times
TimeLeq(a, b) == a.q < b.q \/ (a.q = b.q /\ a.r <= b.r)

\* The digit runs that occur in conversionTime values, with the time each
\* one denotes: 1780704000000 = 229 * 7776000000, 1788480000000 = 230 * 7776000000,
\* 8640000000000001 = 1111111 * 7776000000 + 864000001.
TimeNumerals ==
  {"0", "777600000000", "1780703999999", "1780704000000", "1780704000001",
   "1788480000000", "1788480000001", "8640000000000001"}

TimeNumeralValue(tok) ==
  CASE tok = "0"             -> Num(0, 0)
    [] tok = "777600000000"  -> Num(100, 0)
    [] tok = "1780703999999" -> Num(229, -1)
    [] tok = "1780704000000" -> Num(229, 0)
    [] tok = "1780704000001" -> Num(229, 1)
    [] tok = "1788480000000" -> Num(230, 0)
    [] tok = "1788480000001" -> Num(230, 1)
    [] tok = "8640000000000001" -> Num(1111111, 864000001)

\* parseInt(s): leading whitespace is skipped, an optional sign is read, then
\* the leading digit run gives the value and anything after it is ignored;
\* NaN when no digit run starts there.
parseInt(s) ==
  LET t == TrimLeft(s)
      neg == t # <<>> /\ Head(t) = "-"
      u == IF t # <<>> /\ Head(t) \in {"-", "+"} THEN Tail(t) ELSE t
  IN IF u # <<>> /\ Head(u) \in TimeNumerals
       THEN LET v == TimeNumeralValue(Head(u))
            IN IF neg THEN Num(0 - v.q, 0 - v.r) ELSE v
       ELSE NaN

\* The digit runs that occur in conversionValue values, with the amount each
\* denotes in hundredths.
AmountNumerals == {"0", "5", "10", "10.50"}

AmountNumeralValue(tok) ==
  CASE tok = "0"     -> 0
    [] tok = "5"     -> 500
    [] tok = "10"    -> 1000
    [] tok = "10.50" -> 1050

\* parseFloat(s), in hundredths
parseFloat(s) ==
  LET t == TrimLeft(s)
      neg == t # <<>> /\ Head(t) = "-"
      u == IF t # <<>> /\ Head(t) \in {"-", "+"} THEN Tail(t) ELSE t
  IN IF u # <<>> /\ Head(u) \in AmountNumerals
       THEN [nan |-> FALSE,
             v |-> IF neg THEN 0 - AmountNumeralValue(Head(u))
                          ELSE AmountNumeralValue(Head(u))]
       ELSE [nan |-> TRUE, v |-> 0]

\* Number.prototype.toString of an amount in hundredths
AmountToString(v) ==
  CASE v = 0    -> <<"0">>
    [] v = 500  -> <<"5">>
    [] v = 1000 -> <<"10">>
    [] v = 1050 -> <<"10.5">>

\* The largest time value of a Date: 8.64e15 ms = 1111111 * 7776000000 + 864000000
MaxTimeValue == Num(1111111, 864000000)

\* new Date(t) is a valid date; new Date(t).toISOString() throws a
\* RangeError when it is not (t is NaN or beyond +-8.64e15)
IsTimeValue(t) ==
  /\ ~t.nan
  /\ TimeLeq(Num(0 - MaxTimeValue.q, 0 - MaxTimeValue.r), t)
  /\ TimeLeq(t, MaxTimeValue)

Digits == <<"0", "1", "2", "3", "4", "5", "6", "7", "8", "9">>

Max(a, b) == IF a >= b THEN a ELSE b
Min(a, b) == IF a <= b THEN a ELSE b

-----------------------------------------------------------------------------
(* Record validator: the same code in both senders *)

\* isValidConversionTime with the lower end of the window excluded
\* (timestamp > ninetyDaysAgo)
isValidConversionTimeExclusive(timestamp, now) ==
  IF timestamp.nan \/ (timestamp.q = 0 /\ timestamp.r = 0)
    THEN FALSE
    ELSE LET ninetyDaysAgo == Num(now.q - 1, now.r)
         IN ~TimeLeq(timestamp, ninetyDaysAgo) /\ TimeLeq(timestamp, now)

\* isValidConversionTime(timestamp), with Date.now() = now
isValidConversionTime(timestamp, now) ==
  IF timestamp.nan \/ (timestamp.q = 0 /\ timestamp.r = 0)
    THEN FALSE
    ELSE LET ninetyDaysAgo == Num(now.q - 1, now.r)
         IN TimeLeq(ninetyDaysAgo, timestamp) /\ TimeLeq(timestamp, now)

\* /^[A-Z]{3}$/.test(code)
IsIsoCurrencyCode(code) ==
  Len(code) = 3 /\ \A k \in 1..Len(code) : IsUpper(code[k])

\* validateCurrencyData accepting every pair with both fields present,
\* whatever their format
validateCurrencyDataAnyFormat(record) ==
  LET hasCurrencyCode == NonBlank(record, "currencyCode")
      hasConversionValue == NonBlank(record, "conversionValue")
      conversionValue == parseFloat(Field(record, "conversionValue"))
  IN IF hasCurrencyCode /\ hasConversionValue
       THEN [shouldInclude |-> TRUE, warning |-> "none",
             currencyCode |-> toUpperCase(Trim(Field(record, "currencyCode"))),
             conversionValue |-> IF conversionValue.nan THEN 0
                                 ELSE Max(conversionValue.v, 0)]
       ELSE [shouldInclude |-> FALSE,
             warning |-> IF hasCurrencyCode \/ hasConversionValue
                           THEN "incomplete" ELSE "none",
             currencyCode |-> <<>>, conversionValue |-> 0]

\* validateCurrencyData returning the code as written in the record
validateCurrencyDataCodeAsWritten(record) ==
  LET hasCurrencyCode == NonBlank(record, "currencyCode")
      hasConversionValue == NonBlank(record, "conversionValue")
      currencyCode == toUpperCase(Trim(Field(record, "currencyCode")))
      conversionValue == parseFloat(Field(record, "conversionValue"))
      exclude(w) == [shouldInclude |-> FALSE, warning |-> w,
                     currencyCode |-> <<>>, conversionValue |-> 0]
  IN IF ~hasCurrencyCode /\ ~hasConversionValue THEN exclude("none")
     ELSE IF ~hasCurrencyCode \/ ~hasConversionValue THEN exclude("incomplete")
     ELSE IF ~IsIsoCurrencyCode(currencyCode) THEN exclude("currencyCode")
     ELSE IF conversionValue.nan \/ conversionValue.v < 0
       THEN exclude("conversionValue")
     ELSE [shouldInclude |-> TRUE, warning |-> "none",
           currencyCode |-> Field(record, "currencyCode"),
           conversionValue |-> conversionValue.v]

validateCurrencyData(record) ==
  LET hasCurrencyCode == NonBlank(record, "currencyCode")
      hasConversionValue == NonBlank(record, "conversionValue")
      currencyCode == toUpperCase(Trim(Field(record, "currencyCode")))
      conversionValue == parseFloat(Field(record, "conversionValue"))
      exclude(w) == [shouldInclude |-> FALSE, warning |-> w,
                     currencyCode |-> <<>>, conversionValue |-> 0]
  IN IF ~hasCurrencyCode /\ ~hasConversionValue THEN exclude("none")
     ELSE IF ~hasCurrencyCode \/ ~hasConversionValue THEN exclude("incomplete")
     ELSE IF ~IsIsoCurrencyCode(currencyCode) THEN exclude("currencyCode")
     ELSE IF conversionValue.nan \/ conversionValue.v < 0
       THEN exclude("conversionValue")
     ELSE [shouldInclude |-> TRUE, warning |-> "none",
           currencyCode |-> currencyCode, conversionValue |-> conversionValue.v]

\* The fields whose presence makes firstName and lastName mandatory
UserInfoTriggers == {"title", "companyName", "countryCode"}

\* validateUserInfo answering includeUserInfo: true when no title,
\* companyName or countryCode is present
validateUserInfoAbsentTrue(record) ==
  LET hasUserInfo == \E f \in UserInfoTriggers : NonBlank(record, f)
      hasFirstName == NonBlank(record, "firstName")
      hasLastName == NonBlank(record, "lastName")
  IN IF ~hasUserInfo THEN [includeUserInfo |-> TRUE, warning |-> FALSE]
     ELSE IF hasFirstName /\ hasLastName
       THEN [includeUserInfo |-> TRUE, warning |-> FALSE]
     ELSE [includeUserInfo |-> FALSE, warning |-> TRUE]

validateUserInfo(record) ==
  LET hasUserInfo == \E f \in UserInfoTriggers : NonBlank(record, f)
      hasFirstName == NonBlank(record, "firstName")
      hasLastName == NonBlank(record, "lastName")
  IN IF ~hasUserInfo THEN [includeUserInfo |-> FALSE, warning |-> FALSE]
     ELSE IF hasFirstName /\ hasLastName
       THEN [includeUserInfo |-> TRUE, warning |-> FALSE]
     ELSE [includeUserInfo |-> FALSE, warning |-> TRUE]

\* validateEventData without its first rule (the email check)
validateEventDataIgnoringReset(record, useTime, resetOld, now) ==
  LET emailError ==
        IF Field(record, "email") = <<>> \/ Trim(Field(record, "email")) = <<>>
          THEN {"email"} ELSE {}
      userInfoValidation == validateUserInfo(record)
      csvTimestamp == parseInt(Field(record, "conversionTime"))
      timeError ==
        IF useTime /\ Field(record, "conversionTime") # <<>>
           /\ ~csvTimestamp.nan /\ ~isValidConversionTime(csvTimestamp, now)
          THEN {"conversionTime"} ELSE {}
      currencyValidation == validateCurrencyData(record)
      errors == emailError \cup timeError
      warnings == (IF userInfoValidation.warning THEN {"userInfo"} ELSE {})
                  \cup (IF currencyValidation.warning # "none"
                          THEN {currencyValidation.warning} ELSE {})
  IN [valid |-> errors = {},
      includeUserInfo |-> errors = {} /\ userInfoValidation.includeUserInfo,
      errors |-> errors,
      warnings |-> warnings]

\* validateEventData without its rule 1 (the email rule)
validateEventDataNoEmailRule(record, useTime, resetOld, now) ==
  LET userInfoValidation == validateUserInfo(record)
      csvTimestamp == parseInt(Field(record, "conversionTime"))
      errors ==
        IF useTime /\ ~resetOld /\ Field(record, "conversionTime") # <<>>
           /\ ~csvTimestamp.nan /\ ~isValidConversionTime(csvTimestamp, now)
          THEN {"conversionTime"} ELSE {}
  IN [valid |-> errors = {},
      includeUserInfo |-> errors = {} /\ userInfoValidation.includeUserInfo,
      errors |-> errors,
      warnings |-> {}]

\* validateEventData(record, index), with Date.now() = now.  The code returns
\* false for a rejected record, so validation.valid and
\* validation.includeUserInfo are then undefined (falsy).
validateEventData(record, useTime, resetOld, now) ==
  LET emailError ==
        IF Field(record, "email") = <<>> \/ Trim(Field(record, "email")) = <<>>
          THEN {"email"} ELSE {}
      userInfoValidation == validateUserInfo(record)
      csvTimestamp == parseInt(Field(record, "conversionTime"))
      timeError ==
        IF useTime /\ ~resetOld /\ Field(record, "conversionTime") # <<>>
           /\ ~csvTimestamp.nan /\ ~isValidConversionTime(csvTimestamp, now)
          THEN {"conversionTime"} ELSE {}
      currencyValidation == validateCurrencyData(record)
      errors == emailError \cup timeError
      warnings == (IF userInfoValidation.warning THEN {"userInfo"} ELSE {})
                  \cup (IF currencyValidation.warning # "none"
                          THEN {currencyValidation.warning} ELSE {})
  IN [valid |-> errors = {},
      includeUserInfo |-> errors = {} /\ userInfoValidation.includeUserInfo,
      errors |-> errors,
      warnings |-> warnings]

-----------------------------------------------------------------------------
(* Payload builders *)

UserInfoFields == {"firstName", "lastName", "title", "companyName", "countryCode"}
CurrencyFields == {"currencyCode", "conversionValue"}

\* Date.now().toString(): the digit run of a time the clock can show,
\* 1788480000000 + r with r below a million
TimeToString(t) ==
  LET digit(n) == Digits[(n % 10) + 1]
  IN <<"1788480" \o digit(t.r \div 100000) \o digit(t.r \div 10000)
                 \o digit(t.r \div 1000) \o digit(t.r \div 100)
                 \o digit(t.r \div 10) \o digit(t.r)>>

\* crypto.createHash('sha256').update(email.toLowerCase()).digest('hex'):
\* the digest is written as a tag on the lower-cased input
hashEmail(email) == <<"sha256:">> \o toLowerCase(email)

\* constructPayload ignoring includeUserInfo: every non-blank field is kept
constructPayloadKeepUserInfo(record, includeUserInfo, useTime, resetOld, now) ==
  LET keys == {k \in DOMAIN record : record[k] # <<>> /\ Trim(record[k]) # <<>>}
  IN [k \in keys |-> record[k]]

\* WebhookSender.constructPayload(record, includeUserInfo): the flat payload,
\* a function from the keys it holds to their string values
constructPayload(record, includeUserInfo, useTime, resetOld, now) ==
  LET currencyValidation == validateCurrencyData(record)
      csvTimestamp == parseInt(Field(record, "conversionTime"))
      timeCase(k) == k = "conversionTime" /\ useTime /\ record[k] # <<>>
      kept(k) ==
        /\ ~(~includeUserInfo /\ k \in UserInfoFields)
        /\ ~(k \in CurrencyFields /\ ~currencyValidation.shouldInclude)
        /\ IF timeCase(k)
             THEN /\ ~csvTimestamp.nan
                  /\ (isValidConversionTime(csvTimestamp, now) \/ resetOld)
             ELSE record[k] # <<>> /\ Trim(record[k]) # <<>>
      keys == {k \in DOMAIN record : kept(k)}
              \cup (IF currencyValidation.shouldInclude THEN CurrencyFields ELSE {})
  IN [k \in keys |->
        IF k = "currencyCode" /\ currencyValidation.shouldInclude
          THEN currencyValidation.currencyCode
        ELSE IF k = "conversionValue" /\ currencyValidation.shouldInclude
          THEN AmountToString(currencyValidation.conversionValue)
        ELSE IF timeCase(k) /\ ~isValidConversionTime(csvTimestamp, now)
          THEN TimeToString(now)
        ELSE record[k]]

\* The branch of timestamp resolution constructLinkedInEvent takes: the
\* record's value ("csv"), the current time because the option is off or the
\* field is empty ("current"), the current time because old timestamps are
\* reset ("reset"), or the branch the code expects not to be taken
\* ("defensive")
ResolutionBranch(record, useTime, resetOld, now) ==
  IF ~(useTime /\ Field(record, "conversionTime") # <<>>) THEN "current"
  ELSE IF isValidConversionTime(parseInt(Field(record, "conversionTime")), now)
    THEN "csv"
  ELSE IF resetOld THEN "reset"
  ELSE "defensive"

\* The same for constructPayload, which copies the field as it is when the
\* option is off or the field is empty ("raw"), enters the branches only for
\* a value that parses to a number and otherwise leaves the field out
\* ("dropped")
PayloadBranch(record, useTime, resetOld, now) ==
  IF ~("conversionTime" \in DOMAIN record /\ useTime
       /\ record["conversionTime"] # <<>>) THEN "raw"
  ELSE IF parseInt(record["conversionTime"]).nan THEN "dropped"
  ELSE IF isValidConversionTime(parseInt(record["conversionTime"]), now)
    THEN "csv"
  ELSE IF resetOld THEN "reset"
  ELSE "defensive"

\* constructLinkedInEvent throws: the log lines of the reset branch (written
\* while debugConversionTime < 3) and of the defensive branch format
\* new Date(csvTimestamp).toISOString()
constructLinkedInEventThrows(record, useTime, resetOld, now, debug) ==
  LET branch == ResolutionBranch(record, useTime, resetOld, now)
      csvTimestamp == parseInt(Field(record, "conversionTime"))
  IN \/ branch = "reset" /\ debug < 3 /\ ~IsTimeValue(csvTimestamp)
     \/ branch = "defensive" /\ ~IsTimeValue(csvTimestamp)

\* LinkedInCAPISender.constructLinkedInEvent(record, includeUserInfo): the
\* nested event it returns when it does not throw.  An optional block is a sequence of zero or one element.
constructLinkedInEvent(record, includeUserInfo, useTime, resetOld, now) ==
  LET csvTimestamp == parseInt(Field(record, "conversionTime"))
      conversionTimestamp ==
        IF useTime /\ Field(record, "conversionTime") # <<>>
           /\ isValidConversionTime(csvTimestamp, now)
          THEN csvTimestamp
          ELSE now
      currencyValidation == validateCurrencyData(record)
      filteredUserInfo == {f \in UserInfoFields : NonBlank(record, f)}
  IN [conversionHappenedAt |-> conversionTimestamp,
      userIds |-> <<[idType |-> "SHA256_EMAIL",
                     idValue |-> hashEmail(Field(record, "email"))]>>,
      conversionValue |->
        IF currencyValidation.shouldInclude
          THEN <<[currencyCode |-> currencyValidation.currencyCode,
                  amount |-> AmountToString(currencyValidation.conversionValue)]>>
          ELSE <<>>,
      userInfo |->
        IF includeUserInfo /\ filteredUserInfo # {}
          THEN <<[f \in filteredUserInfo |-> record[f]]>>
          ELSE <<>>]

\* LinkedInCAPISender.constructBatchPayload(records): records is a sequence of
\* row numbers.  The records are validated with the clock at validatedAt and
\* the events are built with the clock at builtAt.  validRows are the rows
\* whose events make up elements, in payload order; threw tells that
\* constructLinkedInEvent threw, on the row validRows[built], so that no
\* payload is returned; debugConversionTime is the counter afterwards.
constructBatchPayload(records, data, useTime, resetOld, validatedAt, builtAt, debug) ==
  LET validation(row) == validateEventData(data[row], useTime, resetOld, validatedAt)
      validRows == SelectSeq(records, LAMBDA row : validation(row).valid)
      debugAt(k) == Min(debug + k - 1, 3)
      throwing == {k \in 1..Len(validRows) :
                     constructLinkedInEventThrows(data[validRows[k]], useTime,
                                                  resetOld, builtAt, debugAt(k))}
      built == IF throwing = {} THEN Len(validRows)
               ELSE CHOOSE k \in throwing : \A j \in throwing : k <= j
  IN [validRows |-> validRows,
      threw |-> throwing # {},
      built |-> built,
      debugConversionTime |-> IF throwing = {} THEN Min(debug + built, 3)
                              ELSE debugAt(built),
      elements |-> [k \in 1..Len(validRows) |->
                      constructLinkedInEvent(data[validRows[k]],
                                             validation(validRows[k]).includeUserInfo,
                                             useTime, resetOld, builtAt)],
      validRecordsCount |-> Len(validRows),
      skippedRecordsCount |-> Len(records) - Len(validRows)]

-----------------------------------------------------------------------------
(* Inputs *)

Columns == {"email", "firstName", "lastName", "title", "companyName",
            "countryCode", "conversionTime", "currencyCode", "conversionValue"}

Email == <<"A", "@", "x">>

\* A row of a CSV whose header holds every column
Row(email, firstName, lastName, title, conversionTime) ==
  [c \in Columns |->
     CASE c = "email" -> email
       [] c = "firstName" -> firstName
       [] c = "lastName" -> lastName
       [] c = "title" -> title
       [] c = "conversionTime" -> conversionTime
       [] OTHER -> <<>>]

\* The rows the dispatch runs draw their CSV from: a complete row stamped
\* with the clock's first reading, a row without email, and a row with a
\* title but no first name, stamped exactly 90 days before the clock's first
\* reading.
GoodRow == Row(Email, <<"J">>, <<"D">>, <<"C", "E", "O">>, <<"1788480000000">>)
NoEmailRow == Row(<<>>, <<"J">>, <<"D">>, <<>>, <<"1788480000000">>)
EdgeRow == Row(Email, <<>>, <<"D">>, <<"C", "E", "O">>, <<"1780704000000">>)
\* a complete row whose conversionTime is not a number
TextTimeRow == Row(Email, <<"J">>, <<"D">>, <<>>, <<"a">>)

DispatchRows == {GoodRow, NoEmailRow, EdgeRow, TextTimeRow}

CsvFiles == UNION {[1..n -> DispatchRows] : n \in 0..MaxRecords}

\* getConversionTimeConfigurationIfAvailable prints the conversionTime of the
\* first three records with new Date(parseInt(...)).toISOString(): a value
\* there that is no time value makes run() exit before sendAllRecords
SampleSize == 3
SamplePrints(data) ==
  \A k \in 1..Min(SampleSize, Len(data)) :
     \/ Field(data[k], "conversionTime") = <<>>
     \/ IsTimeValue(parseInt(Field(data[k], "conversionTime")))

\* A file whose text conversionTime lies beyond the sample; it is sent as
\* one batch
LongFiles ==
  {[k \in 1..(SampleSize + 1) |-> IF k <= SampleSize THEN GoodRow ELSE TextTimeRow]}

\* The files a run gets to send
SendableFiles == {data \in CsvFiles \cup LongFiles : SamplePrints(data)}

\* getConversionTimeConfigurationIfAvailable: resetOldTimestamps is only
\* asked for, and only set, when useConversionTime is set
Configurations ==
  {c \in [useConversionTime : BOOLEAN, resetOldTimestamps : BOOLEAN] :
     c.resetOldTimestamps => c.useConversionTime}

BatchSizes == {1, 2}

\* The clock's first reading and the readings that follow it: between two
\* readings of Date.now() in one synchronous stretch the clock stands still
\* or, within the first millisecond of the run, moves on by one
ClockStart == Num(230, 0)
Advance(t, d) == Num(t.q, t.r + d)
Ticks(t) == {d \in {0, 1} : d = 0 \/ t.r + d <= 1}

\* The rates of the two senders (their defaults) and the intervals
\* sendRecordsBatch and sendAllRecords derive from them
maxApiCallsPerMinute == 60
maxRequestsPerMinute == 20
targetIntervalMs == (60 * 1000) \div maxApiCallsPerMinute
delayBetweenRequests == (60 * 1000) \div maxRequestsPerMinute

\* The response times of the endpoint: none in the runs that vary the
\* records, and shorter than, equal to and longer than the target interval in
\* the runs that vary the timing
NoLatency == {0}
Latencies == {0, targetIntervalMs, targetIntervalMs + 500}

\* Responses of the endpoints
StatusCreated == "201"
ElementStatuses == {"201", "400"}
FailureStatuses == {"500", "Network Error"}
WebhookStatuses == {"200", "500", "Network Error"}

NoCall == [records |-> <<>>, validRows |-> <<>>, elements |-> <<>>,
           batchStartTime |-> ClockStart]

NoProbe == [stage |-> "none"]

\* ((num / den) * 100).toFixed(1): the percentage in tenths, rounded, or the
\* text NaN or Infinity (finite is FALSE) when the denominator is zero
Percent(num, den) ==
  IF den = 0 THEN [finite |-> FALSE, tenths |-> 0]
  ELSE [finite |-> TRUE, tenths |-> (num * 2000 + den) \div (2 * den)]

\* The literal '0.0'
ZeroPercent == [finite |-> TRUE, tenths |-> 0]

\* hist: the rows a payload builder was invoked on, the rows validateEventData
\* rejected, the network calls issued (with the rows whose events they carried
\* and the response), the records handed to the retry pass, the inter-call
\* sleeps of the webhook sender, the start time of every loop iteration of
\* sendRecordsBatch and the rate limiting that ended it, the rows on which a
\* builder took the defensive branch, whether the run was ended by an
\* exception, whether isRunning was cleared while a call was in flight, and
\* the calls of validateEventData by sendRecordsBatch (row, clock, result)
EmptyHistory == [built |-> {}, skipped |-> {}, calls |-> <<>>,
                 retried |-> <<>>, delays |-> <<>>, starts |-> <<>>,
                 waits |-> <<>>, defensive |-> {}, aborted |-> FALSE,
                 cancelledInFlight |-> FALSE, validated |-> {}]

-----------------------------------------------------------------------------
(* LinkedInCAPISender: sendRecordsBatch and sendBatchToLinkedIn *)

\* The file holds a row whose conversionTime is text.  The batched sender is
\* run on such a file with useConversionTime set, where the text is read.
HasTextTime(data) == \E k \in 1..Len(data) : data[k] = TextTimeRow

\* State at the entry of sendRecordsBatch (sendAllRecords has set isRunning)
InitLinkedIn ==
  /\ sender = "linkedin"
  /\ csvData \in SendableFiles
  /\ totalRecords = Len(csvData)
  /\ debugConversionTime = 0
  /\ latencies = NoLatency
  /\ \E c \in Configurations :
       /\ HasTextTime(csvData) => c.useConversionTime
       /\ csvData = <<>> => ~c.useConversionTime
       /\ useConversionTime = c.useConversionTime
       /\ resetOldTimestamps = c.resetOldTimestamps
  /\ eventsPerBatch \in (IF Len(csvData) > MaxRecords THEN {Len(csvData)}
                                                   ELSE BatchSizes)
  /\ clock = ClockStart
  /\ isRunning = TRUE
  /\ pc = "loop"
  /\ pass = "first"
  /\ sentRecords = 0
  /\ failedRecords = <<>>
  /\ successfulEvents = <<>>
  /\ pending = [k \in 1..Len(csvData) |-> k]
  /\ batchIndex = 0
  /\ inflight = NoCall
  /\ skippedRecords = 0
  /\ hist = EmptyHistory
  /\ probe = NoProbe

\* A loop that issues its next call without awaiting the one in flight
LoopNeverSuspended == pc \in {"loop", "await"}

\* const result = await this.sendBatchToLinkedIn(...), and in the webhook
\* sender await this.sendWebhookRequest(...): the loop is suspended while a
\* call is in flight and runs its next iteration only once the call resolved
LoopResumed == pc = "loop"

\* The while condition that ignores this.isRunning
WhileConditionIgnoringFlag(remaining) == remaining # <<>>

\* The condition of both while loops of sendRecordsBatch, on recordsToProcess
\* and on recordsToRetry
WhileCondition(remaining) == remaining # <<>> /\ isRunning

\* Math.max(0, targetIntervalMs - batchDuration), computed only when the
\* loop's rate-limiting condition holds
timeToWait(more, batchDuration) ==
  IF more THEN Max(0, targetIntervalMs - batchDuration) ELSE 0

\* RateLimit with the first loop's condition reduced to the records that
\* remain (failed records do not count)
RateLimitRemainingOnly(p, start, end, remaining, failed) ==
  LET more == remaining # <<>>
      batchDuration == end.r - start.r
  IN [clock |-> Advance(end, timeToWait(more, batchDuration)),
      entry |-> [pass |-> p, more |-> more, batchDuration |-> batchDuration,
                 timeToWait |-> timeToWait(more, batchDuration)]]

\* The end of a loop iteration of sendRecordsBatch, sendBatchToLinkedIn having
\* returned at time end: the rate-limiting condition of the pass (records
\* remain, or in the first pass some have failed), the duration of the batch
\* and the sleep.  Yields the clock after the sleep and the entry of hist.waits.
RateLimit(p, start, end, remaining, failed) ==
  LET more == IF p = "first" THEN remaining # <<>> \/ failed # <<>>
                             ELSE remaining # <<>>
      batchDuration == end.r - start.r
  IN [clock |-> Advance(end, timeToWait(more, batchDuration)),
      entry |-> [pass |-> p, more |-> more, batchDuration |-> batchDuration,
                 timeToWait |-> timeToWait(more, batchDuration)]]

\* One iteration of either while loop up to the axios.post: splice the next
\* batch, validate its records, build the events, and either end the run with
\* the exception a builder threw, or skip the call (no valid record) and end
\* the iteration, or issue the call.
SendBatch ==
  /\ sender = "linkedin" /\ LoopResumed
  /\ WhileCondition(pending)
  /\ \E d \in Ticks(clock) : \E e \in Ticks(Advance(clock, d)) :
       LET batchStartTime == clock
           validatedAt == Advance(clock, d)
           builtAt == Advance(validatedAt, e)
           n == Min(eventsPerBatch, Len(pending))
           currentBatch == SubSeq(pending, 1, n)
           remaining == SubSeq(pending, n + 1, Len(pending))
       IN \E payload \in {constructBatchPayload(currentBatch, csvData,
                              useConversionTime, resetOldTimestamps,
                              validatedAt, builtAt, debugConversionTime)} :
          \E limit \in {RateLimit(pass, batchStartTime, builtAt, remaining,
                                  failedRecords)} :
          \E started \in
               {[hist EXCEPT
                   !.skipped = @ \cup ({currentBatch[k] : k \in 1..n} \
                      {payload.validRows[k] : k \in 1..Len(payload.validRows)}),
                   !.built = @ \cup {payload.validRows[k] : k \in 1..payload.built},
                   !.defensive = @ \cup
                      {row \in {payload.validRows[k] : k \in 1..payload.built} :
                         ResolutionBranch(csvData[row], useConversionTime,
                                          resetOldTimestamps, builtAt) = "defensive"},
                   !.validated = @ \cup
                      {[row |-> currentBatch[k], at |-> validatedAt,
                        result |-> validateEventData(csvData[currentBatch[k]],
                                     useConversionTime, resetOldTimestamps,
                                     validatedAt)] : k \in 1..n},
                   !.starts = Append(@, batchStartTime)]} :
          /\ pending' = remaining
          /\ debugConversionTime' = payload.debugConversionTime
          /\ IF payload.threw
               THEN /\ clock' = builtAt
                    /\ inflight' = NoCall
                    /\ batchIndex' = batchIndex
                    /\ pc' = "aborted"
                    /\ hist' = [started EXCEPT !.aborted = TRUE]
             ELSE IF payload.elements = <<>>
               THEN /\ clock' = limit.clock
                    /\ inflight' = NoCall
                    /\ batchIndex' = batchIndex + 1
                    /\ pc' = "loop"
                    /\ hist' = [started EXCEPT !.waits = Append(@, limit.entry)]
               ELSE /\ clock' = builtAt
                    /\ inflight' = [records |-> currentBatch,
                                    validRows |-> payload.validRows,
                                    elements |-> payload.elements,
                                    batchStartTime |-> batchStartTime]
                    /\ batchIndex' = batchIndex
                    /\ pc' = "await"
                    /\ hist' = [started EXCEPT
                                  !.calls = Append(@, [pass |-> pass,
                                                       batchIndex |-> batchIndex,
                                                       rows |-> payload.validRows,
                                                       response |-> <<>>,
                                                       failure |-> "pending"])]
  /\ UNCHANGED <<sender, csvData, totalRecords, latencies, useConversionTime,
                 resetOldTimestamps, eventsPerBatch, isRunning, pass,
                 sentRecords, failedRecords, successfulEvents, skippedRecords,
                 probe>>

\* The indices of the elements of a response that carry the success code
Accepted(statuses) == {k \in 1..Len(statuses) : statuses[k] = StatusCreated}

\* Every entry of s, whatever the indices in K
PickAll(s, K, k) == s

\* The entries of sequence s at the indices in set K, in order
RECURSIVE Pick(_, _, _)
Pick(s, K, k) ==
  IF k > Len(s) THEN <<>>
  ELSE (IF k \in K THEN <<s[k]>> ELSE <<>>) \o Pick(s, K, k + 1)

\* elements.forEach((element, index) => ...): the record an outcome is
\* booked on is records[index]
ResponseRecord(call, index) == call.records[index]

\* The 2xx branch of sendBatchToLinkedIn: one status per submitted element;
\* then the rest of the loop iteration
BatchResponse ==
  /\ sender = "linkedin" /\ pc = "await"
  /\ \E statuses \in [1..Len(inflight.elements) -> ElementStatuses] :
     \E latency \in latencies :
       LET sent == [k \in 1..Len(statuses) |->
                      [record |-> ResponseRecord(inflight, k),
                       pass |-> pass,
                       batchIndex |-> batchIndex,
                       eventIndex |-> k - 1]]
           failed == [k \in 1..Len(statuses) |->
                        [record |-> ResponseRecord(inflight, k),
                         error |-> [message |-> "Bad Request",
                                    status |-> statuses[k]],
                         pass |-> pass,
                         batchIndex |-> batchIndex,
                         eventIndex |-> k - 1]]
           ok == Accepted(statuses)
           failedAfter == failedRecords \o Pick(failed, (1..Len(statuses)) \ ok, 1)
           limit == RateLimit(pass, inflight.batchStartTime,
                              Advance(clock, latency), pending, failedAfter)
       IN /\ sentRecords' = sentRecords + Cardinality(ok)
          /\ successfulEvents' = successfulEvents \o Pick(sent, ok, 1)
          /\ failedRecords' = failedAfter
          /\ clock' = limit.clock
          /\ hist' = [hist EXCEPT !.calls[Len(hist.calls)].response = statuses,
                                  !.calls[Len(hist.calls)].failure = "none",
                                  !.waits = Append(@, limit.entry)]
  /\ inflight' = NoCall
  /\ batchIndex' = batchIndex + 1
  /\ pc' = "loop"
  /\ UNCHANGED <<sender, csvData, totalRecords, debugConversionTime, latencies,
                 useConversionTime, resetOldTimestamps,
                 eventsPerBatch, isRunning, pass, pending,
                 skippedRecords, probe>>

\* The catch branch booking only the first record of the batch as failed
BatchFailureFirstOnly ==
  /\ sender = "linkedin" /\ pc = "await"
  /\ \E statusCode \in FailureStatuses :
     \E latency \in latencies :
       LET failedAfter ==
             Append(failedRecords,
               [record |-> inflight.records[1],
                error |-> [message |-> "Request failed", status |-> statusCode],
                pass |-> pass,
                batchIndex |-> batchIndex,
                eventIndex |-> 0])
           limit == RateLimit(pass, inflight.batchStartTime,
                              Advance(clock, latency), pending, failedAfter)
       IN /\ failedRecords' = failedAfter
          /\ clock' = limit.clock
          /\ hist' = [hist EXCEPT !.calls[Len(hist.calls)].failure = statusCode,
                                  !.waits = Append(@, limit.entry)]
  /\ inflight' = NoCall
  /\ batchIndex' = batchIndex + 1
  /\ pc' = "loop"
  /\ UNCHANGED <<sender, csvData, totalRecords, debugConversionTime, latencies,
                 useConversionTime, resetOldTimestamps,
                 eventsPerBatch, isRunning, pass, sentRecords,
                 successfulEvents, pending, skippedRecords, probe>>

\* The catch branch of sendBatchToLinkedIn: network error or non-2xx status;
\* then the rest of the loop iteration
BatchFailure ==
  /\ sender = "linkedin" /\ pc = "await"
  /\ \E statusCode \in FailureStatuses :
     \E latency \in latencies :
       LET failedAfter ==
             failedRecords \o
               [k \in 1..Len(inflight.records) |->
                  [record |-> inflight.records[k],
                   error |-> [message |-> "Request failed", status |-> statusCode],
                   pass |-> pass,
                   batchIndex |-> batchIndex,
                   eventIndex |-> k - 1]]
           limit == RateLimit(pass, inflight.batchStartTime,
                              Advance(clock, latency), pending, failedAfter)
       IN /\ failedRecords' = failedAfter
          /\ clock' = limit.clock
          /\ hist' = [hist EXCEPT !.calls[Len(hist.calls)].failure = statusCode,
                                  !.waits = Append(@, limit.entry)]
  /\ inflight' = NoCall
  /\ batchIndex' = batchIndex + 1
  /\ pc' = "loop"
  /\ UNCHANGED <<sender, csvData, totalRecords, debugConversionTime, latencies,
                 useConversionTime, resetOldTimestamps,
                 eventsPerBatch, isRunning, pass, sentRecords,
                 successfulEvents, pending, skippedRecords, probe>>

\* StartRetry run after every pass with failures instead of after the first
\* pass only
StartRetryEveryPass ==
  /\ sender = "linkedin" /\ pc = "loop"
  /\ ~(pending # <<>> /\ isRunning)
  /\ IF failedRecords # <<>>
       THEN /\ pending' = [k \in 1..Len(failedRecords) |-> failedRecords[k].record]
            /\ failedRecords' = <<>>
            /\ pass' = "retry"
            /\ batchIndex' = 0
            /\ pc' = "loop"
            /\ hist' = [hist EXCEPT !.retried =
                          [k \in 1..Len(failedRecords) |-> failedRecords[k].record]]
       ELSE /\ pc' = "done"
            /\ UNCHANGED <<pending, failedRecords, pass, batchIndex, hist>>
  /\ UNCHANGED <<sender, csvData, totalRecords, debugConversionTime, latencies,
                 useConversionTime, resetOldTimestamps,
                 eventsPerBatch, clock, isRunning, sentRecords,
                 successfulEvents, inflight, skippedRecords, probe>>

\* StartRetry handing the failed records to the retry pass last one first
StartRetryReversed ==
  /\ sender = "linkedin" /\ pc = "loop" /\ pass = "first"
  /\ ~WhileCondition(pending)
  /\ IF failedRecords # <<>>
       THEN /\ pending' = [k \in 1..Len(failedRecords) |->
                             failedRecords[Len(failedRecords) + 1 - k].record]
            /\ failedRecords' = <<>>
            /\ pass' = "retry"
            /\ batchIndex' = 0
            /\ pc' = "loop"
            /\ hist' = [hist EXCEPT !.retried =
                          [k \in 1..Len(failedRecords) |-> failedRecords[k].record]]
       ELSE /\ pc' = "done"
            /\ UNCHANGED <<pending, failedRecords, pass, batchIndex, hist>>
  /\ UNCHANGED <<sender, csvData, totalRecords, debugConversionTime, latencies,
                 useConversionTime, resetOldTimestamps,
                 eventsPerBatch, clock, isRunning, sentRecords,
                 successfulEvents, inflight, skippedRecords, probe>>

\* The first while loop is left: the failed records, if any, become
\* recordsToRetry and failedRecords is cleared
StartRetry ==
  /\ sender = "linkedin" /\ pc = "loop" /\ pass = "first"
  /\ ~WhileCondition(pending)
  /\ IF failedRecords # <<>>
       THEN /\ pending' = [k \in 1..Len(failedRecords) |-> failedRecords[k].record]
            /\ failedRecords' = <<>>
            /\ pass' = "retry"
            /\ batchIndex' = 0
            /\ pc' = "loop"
            /\ hist' = [hist EXCEPT !.retried =
                          [k \in 1..Len(failedRecords) |-> failedRecords[k].record]]
       ELSE /\ pc' = "done"
            /\ UNCHANGED <<pending, failedRecords, pass, batchIndex, hist>>
  /\ UNCHANGED <<sender, csvData, totalRecords, debugConversionTime, latencies,
                 useConversionTime, resetOldTimestamps,
                 eventsPerBatch, clock, isRunning, sentRecords,
                 successfulEvents, inflight, skippedRecords, probe>>

\* The retry while loop is left: sendRecordsBatch returns
FinishRetry ==
  /\ sender = "linkedin" /\ pc = "loop" /\ pass = "retry"
  /\ ~WhileCondition(pending)
  /\ pc' = "done"
  /\ UNCHANGED <<sender, csvData, totalRecords, debugConversionTime, latencies,
                 useConversionTime, resetOldTimestamps,
                 eventsPerBatch, clock, isRunning, pass, sentRecords,
                 failedRecords, successfulEvents, pending, batchIndex,
                 inflight, skippedRecords, hist, probe>>

\* this.isRunning is cleared from outside the loop while the run is suspended
Cancel ==
  /\ sender \in {"linkedin", "webhook"}
  /\ pc \in {"loop", "await"} /\ isRunning
  /\ isRunning' = FALSE
  /\ hist' = [hist EXCEPT !.cancelledInFlight = (pc = "await")]
  /\ UNCHANGED <<sender, csvData, totalRecords, debugConversionTime, latencies,
                 useConversionTime, resetOldTimestamps,
                 eventsPerBatch, clock, pc, pass, sentRecords, failedRecords,
                 successfulEvents, pending, batchIndex, inflight,
                 skippedRecords, probe>>

\* LinkedInCAPISender.displayProgress(): the progress and the success rate
\* it writes
displayProgress ==
  LET totalSent == sentRecords
      totalFailed == Len(failedRecords)
      totalProcessed == totalSent + totalFailed
  IN [progress |-> Percent(totalProcessed, totalRecords),
      successRate |-> IF totalProcessed > 0
                        THEN Percent(totalSent, totalProcessed)
                        ELSE ZeroPercent]

\* The success rate of the summary LinkedInCAPISender.sendAllRecords prints
\* when sendRecordsBatch has returned
SummarySuccessRate == Percent(sentRecords, totalRecords)

NextLinkedIn ==
  \/ SendBatch
  \/ BatchResponse
  \/ BatchFailure
  \/ StartRetry
  \/ FinishRetry
  \/ Cancel

SpecLinkedIn == InitLinkedIn /\ [][NextLinkedIn]_vars

\* The runs that vary the timing: complete records, the CSV timestamps not
\* used, one record per batch or two, an endpoint that answers at once,
\* after exactly the target interval, or later, and a start after the first
\* millisecond, so that the clock moves with the responses and sleeps only
PacingFiles == {[k \in 1..n |-> GoodRow] : n \in {1, 2}}

InitPacing ==
  /\ sender = "linkedin"
  /\ csvData \in PacingFiles
  /\ totalRecords = Len(csvData)
  /\ debugConversionTime = 0
  /\ latencies = Latencies
  /\ useConversionTime = FALSE
  /\ resetOldTimestamps = FALSE
  /\ eventsPerBatch \in BatchSizes
  /\ clock = Advance(ClockStart, 1)
  /\ isRunning = TRUE
  /\ pc = "loop"
  /\ pass = "first"
  /\ sentRecords = 0
  /\ failedRecords = <<>>
  /\ successfulEvents = <<>>
  /\ pending = [k \in 1..Len(csvData) |-> k]
  /\ batchIndex = 0
  /\ inflight = NoCall
  /\ skippedRecords = 0
  /\ hist = EmptyHistory
  /\ probe = NoProbe

SpecPacing == InitPacing /\ [][NextLinkedIn]_vars

-----------------------------------------------------------------------------
(* WebhookSender: sendAllRecords and sendWebhookRequest *)

\* State at the top of the for loop of sendAllRecords; pending is i + 1
InitWebhook ==
  /\ sender = "webhook"
  /\ csvData \in SendableFiles
  /\ totalRecords = Len(csvData)
  /\ debugConversionTime = 0
  /\ latencies = NoLatency
  /\ \E c \in Configurations :
       /\ csvData = <<>> => ~c.useConversionTime
       /\ useConversionTime = c.useConversionTime
       /\ resetOldTimestamps = c.resetOldTimestamps
  /\ eventsPerBatch = 1
  /\ clock = ClockStart
  /\ isRunning = TRUE
  /\ pc = "loop"
  /\ pass = "first"
  /\ sentRecords = 0
  /\ failedRecords = <<>>
  /\ successfulEvents = <<>>
  /\ pending = 1
  /\ batchIndex = 0
  /\ inflight = NoCall
  /\ skippedRecords = 0
  /\ hist = EmptyHistory
  /\ probe = NoProbe

\* One iteration of the for loop up to the axios.post: the record is
\* validated and either skipped (continue) or built and posted
SendRecord ==
  /\ sender = "webhook" /\ LoopResumed
  /\ pending <= Len(csvData) /\ isRunning
  /\ \E d \in Ticks(clock) : \E e \in Ticks(Advance(clock, d)) :
       LET validatedAt == Advance(clock, d)
           builtAt == Advance(validatedAt, e)
           record == csvData[pending]
           validation == validateEventData(record, useConversionTime,
                                           resetOldTimestamps, validatedAt)
       IN IF ~validation.valid
            THEN /\ clock' = validatedAt
                 /\ skippedRecords' = skippedRecords + 1
                 /\ pending' = pending + 1
                 /\ inflight' = NoCall
                 /\ pc' = "loop"
                 /\ hist' = [hist EXCEPT !.skipped = @ \cup {pending}]
            ELSE /\ clock' = builtAt
                 /\ inflight' =
                      [records |-> <<pending>>,
                       validRows |-> <<pending>>,
                       elements |-> <<constructPayload(record,
                                        validation.includeUserInfo,
                                        useConversionTime,
                                        resetOldTimestamps, builtAt)>>,
                       batchStartTime |-> clock]
                 /\ pc' = "await"
                 /\ hist' = [hist EXCEPT
                               !.built = @ \cup {pending},
                               !.defensive =
                                  IF PayloadBranch(record, useConversionTime,
                                                   resetOldTimestamps, builtAt)
                                       = "defensive"
                                    THEN @ \cup {pending} ELSE @,
                               !.calls = Append(@, [pass |-> pass,
                                                    batchIndex |-> pending - 1,
                                                    rows |-> <<pending>>,
                                                    response |-> <<>>,
                                                    failure |-> "pending"])]
                 /\ UNCHANGED <<skippedRecords, pending>>
  /\ UNCHANGED <<sender, csvData, totalRecords, debugConversionTime, latencies,
                 useConversionTime, resetOldTimestamps,
                 eventsPerBatch, isRunning, pass, sentRecords, failedRecords,
                 successfulEvents, batchIndex, probe>>

\* WebhookResponse whose catch branch pushes no entry to this.errors
WebhookResponseErrorDropped ==
  /\ sender = "webhook" /\ pc = "await"
  /\ \E status \in WebhookStatuses :
     \E latency \in latencies :
       LET sleeps == pending - 1 < Len(csvData) - 1
       IN /\ IF status = "200"
               THEN /\ sentRecords' = sentRecords + 1
                    /\ UNCHANGED failedRecords
               ELSE UNCHANGED <<sentRecords, failedRecords>>
          /\ clock' = Advance(clock, latency + (IF sleeps THEN delayBetweenRequests
                                                          ELSE 0))
          /\ hist' = [hist EXCEPT
                        !.calls[Len(hist.calls)].response = <<status>>,
                        !.calls[Len(hist.calls)].failure =
                           IF status = "200" THEN "none" ELSE status,
                        !.delays = IF sleeps
                                     THEN Append(@, [afterCall |-> Len(hist.calls),
                                                     ms |-> delayBetweenRequests])
                                     ELSE @]
  /\ inflight' = NoCall
  /\ pending' = pending + 1
  /\ pc' = "loop"
  /\ UNCHANGED <<sender, csvData, totalRecords, debugConversionTime, latencies,
                 useConversionTime, resetOldTimestamps,
                 eventsPerBatch, isRunning, pass, successfulEvents,
                 batchIndex, skippedRecords, probe>>

\* sendWebhookRequest resolves (2xx) or catches (other status, network
\* error); then the inter-call sleep unless this was the last row
WebhookResponse ==
  /\ sender = "webhook" /\ pc = "await"
  /\ \E status \in WebhookStatuses :
     \E latency \in latencies :
       LET sleeps == pending - 1 < Len(csvData) - 1
       IN /\ IF status = "200"
               THEN /\ sentRecords' = sentRecords + 1
                    /\ UNCHANGED failedRecords
               ELSE /\ failedRecords' =
                         Append(failedRecords,
                                [index |-> pending - 1,
                                 error |-> "Request failed",
                                 status |-> status])
                    /\ UNCHANGED sentRecords
          /\ clock' = Advance(clock, latency + (IF sleeps THEN delayBetweenRequests
                                                          ELSE 0))
          /\ hist' = [hist EXCEPT
                        !.calls[Len(hist.calls)].response = <<status>>,
                        !.calls[Len(hist.calls)].failure =
                           IF status = "200" THEN "none" ELSE status,
                        !.delays = IF sleeps
                                     THEN Append(@, [afterCall |-> Len(hist.calls),
                                                     ms |-> delayBetweenRequests])
                                     ELSE @]
  /\ inflight' = NoCall
  /\ pending' = pending + 1
  /\ pc' = "loop"
  /\ UNCHANGED <<sender, csvData, totalRecords, debugConversionTime, latencies,
                 useConversionTime, resetOldTimestamps,
                 eventsPerBatch, isRunning, pass, successfulEvents,
                 batchIndex, skippedRecords, probe>>

\* The for loop ends: every row was iterated, or isRunning was cleared
FinishWebhook ==
  /\ sender = "webhook" /\ pc = "loop"
  /\ ~(pending <= Len(csvData) /\ isRunning)
  /\ pc' = "done"
  /\ UNCHANGED <<sender, csvData, totalRecords, debugConversionTime, latencies,
                 useConversionTime, resetOldTimestamps,
                 eventsPerBatch, clock, isRunning, pass, sentRecords,
                 failedRecords, successfulEvents, pending, batchIndex,
                 inflight, skippedRecords, hist, probe>>

\* WebhookSender.displayProgress(): errors is held in failedRecords
WebhookDisplayProgress ==
  [progress |-> Percent(sentRecords + Len(failedRecords), totalRecords),
   successRate |-> IF sentRecords > 0
                     THEN Percent(sentRecords, sentRecords + Len(failedRecords))
                     ELSE ZeroPercent]

\* The success rate of the summary WebhookSender.sendAllRecords prints after
\* the loop
WebhookSummarySuccessRate ==
  LET processedRecords == sentRecords + Len(failedRecords)
  IN IF processedRecords > 0 THEN Percent(sentRecords, processedRecords)
                             ELSE ZeroPercent

NextWebhook ==
  \/ SendRecord
  \/ WebhookResponse
  \/ FinishWebhook
  \/ Cancel

SpecWebhook == InitWebhook /\ [][NextWebhook]_vars

-----------------------------------------------------------------------------
(* The validator and the builders applied to one record *)

\* record without the columns in cols (a CSV whose header lacks them)
Without(record, cols) == [c \in DOMAIN record \ cols |-> record[c]]

Blank == <<" ">>

\* Field values of the records the validator is applied to
EmailValues == {<<>>, Blank, Email}
NameValues == {<<>>, Blank, <<"J">>}
TitleValues == {<<>>, Blank, <<"C", "E", "O">>}
CompanyValues == {<<>>, <<"X">>}
CountryValues == {<<>>, <<"U", "S">>}
TimeValues ==
  {<<>>, Blank, <<"a">>, <<"1780704000000", "a">>, <<"-", "1780704000000">>}
    \cup {<<tok>> : tok \in TimeNumerals}
CurrencyCodeValues ==
  {<<>>, <<"u", "s", "d">>, <<"u", "s", "d", " ">>, <<"U", "S", "D">>,
   <<"E", "U", "R", "O">>}
ConversionValueValues == {<<>>, <<"10">>, <<"10.50">>, <<"-", "5">>, <<"a">>}

\* Every combination of the user-information fields; every conversionTime
\* value with complete and with incomplete user information; every currency
\* pair; each with every email value, and each also without an email column.
FullProbeRecords ==
  {[Row(e, f, l, t, <<"1788480000000">>) EXCEPT !.companyName = co, !.countryCode = cc] :
     <<e, f, l, t, co, cc>> \in
        EmailValues \X NameValues \X NameValues \X TitleValues
          \X CompanyValues \X CountryValues}
  \cup {Row(e, f, <<"D">>, <<"C", "E", "O">>, ct) :
          <<e, f, ct>> \in EmailValues \X {<<>>, <<"J">>} \X TimeValues}
  \cup {[Row(e, <<"J">>, <<"D">>, <<>>, <<"1788480000000">>)
           EXCEPT !.currencyCode = c, !.conversionValue = v] :
          <<e, c, v>> \in EmailValues \X CurrencyCodeValues \X ConversionValueValues}

ProbeRecords ==
  FullProbeRecords
    \cup {Without(r, {"email"}) : r \in {x \in FullProbeRecords : x.email = <<>>}}

ProbeClocks == {ClockStart, Advance(ClockStart, 1)}

InitValidator ==
  /\ sender = "validator"
  /\ csvData = <<>>
  /\ totalRecords = 0
  /\ debugConversionTime \in 0..3
  /\ latencies = NoLatency
  /\ \E c \in Configurations :
       /\ useConversionTime = c.useConversionTime
       /\ resetOldTimestamps = c.resetOldTimestamps
  /\ eventsPerBatch = 1
  /\ clock \in ProbeClocks
  /\ isRunning = FALSE
  /\ pc = "probe"
  /\ pass = "first"
  /\ sentRecords = 0
  /\ failedRecords = <<>>
  /\ successfulEvents = <<>>
  /\ pending = <<>>
  /\ batchIndex = 0
  /\ inflight = NoCall
  /\ skippedRecords = 0
  /\ hist = EmptyHistory
  /\ \E r \in ProbeRecords :
       probe = [stage |-> "input", record |-> r, userInfo |-> <<>>,
                validation |-> <<>>, payload |-> <<>>, event |-> <<>>,
                validatedAt |-> clock, builtAt |-> clock, branch |-> "none"]

\* validateEventData(record, index), with the result of its call of
\* validateUserInfo
Validate ==
  /\ sender = "validator" /\ probe.stage = "input"
  /\ probe' = [probe EXCEPT
                 !.stage = "validated",
                 !.validatedAt = clock,
                 !.userInfo = validateUserInfo(probe.record),
                 !.validation = validateEventData(probe.record, useConversionTime,
                                                  resetOldTimestamps, clock)]
  /\ UNCHANGED <<sender, csvData, totalRecords, debugConversionTime, latencies,
                 useConversionTime, resetOldTimestamps,
                 eventsPerBatch, clock, isRunning, pc, pass, sentRecords,
                 failedRecords, successfulEvents, pending, batchIndex,
                 inflight, skippedRecords, hist>>

\* constructPayload(record, validation.includeUserInfo) on an accepted
\* record, at a later reading of the clock
BuildPayload ==
  /\ sender = "validator" /\ probe.stage = "validated"
  /\ probe.validation.valid
  /\ \E d \in Ticks(clock) :
       /\ clock' = Advance(clock, d)
       /\ probe' = [probe EXCEPT
                      !.stage = "payload",
                      !.builtAt = Advance(clock, d),
                      !.branch = PayloadBranch(probe.record, useConversionTime,
                                   resetOldTimestamps, Advance(clock, d)),
                      !.payload = constructPayload(probe.record,
                                    probe.validation.includeUserInfo,
                                    useConversionTime, resetOldTimestamps,
                                    Advance(clock, d))]
  /\ UNCHANGED <<sender, csvData, totalRecords, debugConversionTime, latencies,
                 useConversionTime, resetOldTimestamps,
                 eventsPerBatch, isRunning, pc, pass, sentRecords,
                 failedRecords, successfulEvents, pending, batchIndex,
                 inflight, skippedRecords, hist>>

\* constructLinkedInEvent(record, validation.includeUserInfo) on an accepted
\* record, at a later reading of the clock: it returns an event or throws
BuildEvent ==
  /\ sender = "validator" /\ probe.stage = "validated"
  /\ probe.validation.valid
  /\ \E d \in Ticks(clock) :
       LET now == Advance(clock, d)
           threw == constructLinkedInEventThrows(probe.record, useConversionTime,
                      resetOldTimestamps, now, debugConversionTime)
       IN /\ clock' = now
          /\ debugConversionTime' =
               IF threw THEN debugConversionTime
                        ELSE Min(debugConversionTime + 1, 3)
          /\ probe' = [probe EXCEPT
                         !.stage = IF threw THEN "threw" ELSE "event",
                         !.builtAt = now,
                         !.branch = ResolutionBranch(probe.record, useConversionTime,
                                      resetOldTimestamps, now),
                         !.event = IF threw THEN <<>>
                                   ELSE constructLinkedInEvent(probe.record,
                                          probe.validation.includeUserInfo,
                                          useConversionTime, resetOldTimestamps,
                                          now)]
  /\ UNCHANGED <<sender, csvData, totalRecords, latencies,
                 useConversionTime, resetOldTimestamps,
                 eventsPerBatch, isRunning, pc, pass, sentRecords,
                 failedRecords, successfulEvents, pending, batchIndex,
                 inflight, skippedRecords, hist>>

NextValidator ==
  \/ Validate
  \/ BuildPayload
  \/ BuildEvent

SpecValidator == InitValidator /\ [][NextValidator]_vars

-----------------------------------------------------------------------------
(* parseCsvFile: the same code in both senders *)

Quote == "\""

\* String.prototype.split(sep) for a one-character separator
RECURSIVE SplitFrom(_, _, _)
SplitFrom(s, sep, current) ==
  IF s = <<>> THEN <<current>>
  ELSE IF Head(s) = sep THEN <<current>> \o SplitFrom(Tail(s), sep, <<>>)
  ELSE SplitFrom(Tail(s), sep, Append(current, Head(s)))

Split(s, sep) == SplitFrom(s, sep, <<>>)

\* parseCsvLine(line) from position i on, with the field read so far and
\* the quoting state
RECURSIVE ParseLineFrom(_, _, _, _)
ParseLineFrom(line, i, current, inQuotes) ==
  IF i > Len(line) THEN <<current>>
  ELSE IF line[i] = Quote
    THEN IF inQuotes /\ i + 1 <= Len(line) /\ line[i + 1] = Quote
           THEN ParseLineFrom(line, i + 2, Append(current, Quote), inQuotes)
           ELSE ParseLineFrom(line, i + 1, current, ~inQuotes)
  ELSE IF line[i] = "," /\ ~inQuotes
    THEN <<current>> \o ParseLineFrom(line, i + 1, <<>>, inQuotes)
  ELSE ParseLineFrom(line, i + 1, Append(current, line[i]), inQuotes)

parseCsvLine(line) == ParseLineFrom(line, 1, <<>>, FALSE)

NotProvided ==
  <<"[", "n", "o", "t", " ", "p", "r", "o", "v", "i", "d", "e", "d", "]">>

\* value.replace(/""/g, '"')
RECURSIVE ReplaceDoubledQuotes(_)
ReplaceDoubledQuotes(s) ==
  IF s = <<>> THEN <<>>
  ELSE IF Len(s) >= 2 /\ s[1] = Quote /\ s[2] = Quote
    THEN <<Quote>> \o ReplaceDoubledQuotes(SubSeq(s, 3, Len(s)))
  ELSE <<Head(s)>> \o ReplaceDoubledQuotes(Tail(s))

cleanSfdcValue(value) ==
  LET unquoted == IF value # <<>> /\ Head(value) = Quote
                     /\ value[Len(value)] = Quote
                    THEN SubSeq(value, 2, Len(value) - 1)
                    ELSE value
      provided == IF unquoted = NotProvided THEN <<>> ELSE unquoted
  IN ReplaceDoubledQuotes(provided)

\* Strings of the shape YYYY-MM-DDTHH:MM:SS(.sss)Z, each one token: a date
\* that exists and one that does not
IsoDates == {<<"2026-09-04T00:00:00Z">>, <<"2026-13-04T00:00:00Z">>}

isIso8601Date(dateString) == dateString \in IsoDates

\* new Date(s).getTime().toString(), or '' for an invalid date
convertIso8601ToEpoch(iso8601String) ==
  IF iso8601String = <<"2026-09-04T00:00:00Z">> THEN <<"1788480000000">>
  ELSE <<>>

ConversionTimeHeader ==
  <<"c", "o", "n", "v", "e", "r", "s", "i", "o", "n", "T", "i", "m", "e">>

\* lines.length < 2
TooFewLines(lines) == Len(lines) < 2

\* A data line is kept when it has at least as many fields as the header
AtLeastHeaderLength(values, headers) == Len(values) >= Len(headers)

\* values.length === headers.length
MatchesHeader(values, headers) == Len(values) = Len(headers)

\* The record built from the values of a data line: record[header] = value
\* for each header in turn, so that the last of equal headers wins
RecordOf(headers, values) ==
  LET value(index) ==
        LET cleaned == cleanSfdcValue(Trim(values[index]))
        IN IF headers[index] = ConversionTimeHeader /\ cleaned # <<>>
              /\ isIso8601Date(cleaned)
             THEN convertIso8601ToEpoch(cleaned)
             ELSE cleaned
      last(header) == CHOOSE index \in 1..Len(headers) :
                        /\ headers[index] = header
                        /\ \A j \in 1..Len(headers) :
                             headers[j] = header => j <= index
  IN [header \in {headers[index] : index \in 1..Len(headers)} |->
        value(last(header))]

\* parseCsvFile() on the content of the file: it throws (failed), or yields
\* this.csvData and this.totalRecords; kept are the numbers of the lines
\* that became records
parseCsvFile(csvContent) ==
  LET lines == Split(Trim(csvContent), "\n")
      headers == [k \in 1..Len(Split(lines[1], ",")) |->
                    Trim(Split(lines[1], ",")[k])]
      kept == SelectSeq([i \in 1..(Len(lines) - 1) |-> i + 1],
                        LAMBDA i : MatchesHeader(parseCsvLine(lines[i]), headers))
      data == [k \in 1..Len(kept) |-> RecordOf(headers, parseCsvLine(lines[kept[k]]))]
  IN IF TooFewLines(lines)
       THEN [failed |-> TRUE, csvData |-> <<>>, totalRecords |-> 0,
             lines |-> lines, kept |-> <<>>]
       ELSE [failed |-> FALSE, csvData |-> data, totalRecords |-> Len(data),
             lines |-> lines, kept |-> kept]

\* The characters and the contents of the CSV files the parser is run on
CsvCharacters == {"a", ",", Quote, "\n", " "}
CsvContents == UNION {[1..n -> CsvCharacters] : n \in 0..MaxContent}

\* State of a sender after construction, with the file selected
InitParser ==
  /\ sender = "parser"
  /\ csvData = <<>>
  /\ totalRecords = 0
  /\ debugConversionTime = 0
  /\ latencies = NoLatency
  /\ useConversionTime = FALSE
  /\ resetOldTimestamps = FALSE
  /\ eventsPerBatch = 1
  /\ clock = ClockStart
  /\ isRunning = FALSE
  /\ pc = "parse"
  /\ pass = "first"
  /\ sentRecords = 0
  /\ failedRecords = <<>>
  /\ successfulEvents = <<>>
  /\ pending = <<>>
  /\ batchIndex = 0
  /\ inflight = NoCall
  /\ skippedRecords = 0
  /\ hist = EmptyHistory
  /\ \E content \in CsvContents :
       probe = [stage |-> "content", content |-> content,
                lines |-> <<>>, kept |-> <<>>]

\* parseCsvFile() in run(): on an exception run() ends the process, otherwise
\* the run goes on to the configuration and the dispatch
ParseCsvFile ==
  /\ sender = "parser" /\ pc = "parse"
  /\ LET parsed == parseCsvFile(probe.content)
     IN /\ pc' = IF parsed.failed THEN "exit" ELSE "parsed"
        /\ csvData' = IF parsed.failed THEN csvData ELSE parsed.csvData
        /\ totalRecords' = IF parsed.failed THEN totalRecords
                           ELSE parsed.totalRecords
        /\ probe' = [probe EXCEPT !.stage = "parsed",
                                  !.lines = parsed.lines,
                                  !.kept = parsed.kept]
  /\ UNCHANGED <<sender, debugConversionTime, latencies, useConversionTime,
                 resetOldTimestamps, eventsPerBatch, clock, isRunning, pass,
                 sentRecords, failedRecords, successfulEvents, pending,
                 batchIndex, inflight, skippedRecords, hist>>

NextParser == ParseCsvFile

SpecParser == InitParser /\ [][NextParser]_vars

-----------------------------------------------------------------------------
(* generateCSV (index.js) and the line it writes read back by the sender *)

\* value.replace(/"/g, '""')
RECURSIVE DoubleQuotes(_)
DoubleQuotes(value) ==
  IF value = <<>> THEN <<>>
  ELSE (IF Head(value) = Quote THEN <<Quote, Quote>> ELSE <<Head(value)>>)
         \o DoubleQuotes(Tail(value))

\* The escaping generateCSV applies to a string value
EscapeField(value) ==
  IF \E i \in 1..Len(value) : value[i] = "," \/ value[i] = Quote
    THEN <<Quote>> \o DoubleQuotes(value) \o <<Quote>>
    ELSE value

\* Array.prototype.join(sep)
RECURSIVE Join(_, _)
Join(fields, sep) ==
  IF fields = <<>> THEN <<>>
  ELSE IF Len(fields) = 1 THEN fields[1]
  ELSE fields[1] \o <<sep>> \o Join(Tail(fields), sep)

\* One data line of generateCSV: row.join(',') of the escaped values
generateCSV(row) == Join([k \in 1..Len(row) |-> EscapeField(row[k])], ",")

\* The fields parseCsvFile reads from a data line: parseCsvLine, then trim
\* and cleanSfdcValue on every value
ReadFields(line) ==
  LET values == parseCsvLine(line)
  IN [k \in 1..Len(values) |-> cleanSfdcValue(Trim(values[k]))]

\* Field values without newline or surrounding whitespace
ValueCharacters == {"a", ",", Quote}
FieldValues == UNION {[1..n -> ValueCharacters] : n \in 0..MaxValue}
GeneratedRows == UNION {[1..n -> FieldValues] : n \in 1..MaxFields}

InitRoundTrip ==
  /\ sender = "generator"
  /\ csvData = <<>>
  /\ totalRecords = 0
  /\ debugConversionTime = 0
  /\ latencies = NoLatency
  /\ useConversionTime = FALSE
  /\ resetOldTimestamps = FALSE
  /\ eventsPerBatch = 1
  /\ clock = ClockStart
  /\ isRunning = FALSE
  /\ pc = "generate"
  /\ pass = "first"
  /\ sentRecords = 0
  /\ failedRecords = <<>>
  /\ successfulEvents = <<>>
  /\ pending = <<>>
  /\ batchIndex = 0
  /\ inflight = NoCall
  /\ skippedRecords = 0
  /\ hist = EmptyHistory
  /\ \E row \in GeneratedRows :
       probe = [stage |-> "row", row |-> row, line |-> <<>>, fields |-> <<>>]

\* generateCSV writes the line of the row
GenerateCSV ==
  /\ sender = "generator" /\ pc = "generate"
  /\ pc' = "written"
  /\ probe' = [probe EXCEPT !.stage = "line", !.line = generateCSV(probe.row)]
  /\ UNCHANGED <<sender, csvData, totalRecords, debugConversionTime, latencies,
                 useConversionTime, resetOldTimestamps, eventsPerBatch, clock,
                 isRunning, pass, sentRecords, failedRecords, successfulEvents,
                 pending, batchIndex, inflight, skippedRecords, hist>>

\* The sender's parser reads the line
ReadLine ==
  /\ sender = "generator" /\ pc = "written"
  /\ pc' = "read"
  /\ probe' = [probe EXCEPT !.stage = "fields", !.fields = ReadFields(probe.line)]
  /\ UNCHANGED <<sender, csvData, totalRecords, debugConversionTime, latencies,
                 useConversionTime, resetOldTimestamps, eventsPerBatch, clock,
                 isRunning, pass, sentRecords, failedRecords, successfulEvents,
                 pending, batchIndex, inflight, skippedRecords, hist>>

NextRoundTrip ==
  \/ GenerateCSV
  \/ ReadLine

SpecRoundTrip == InitRoundTrip /\ [][NextRoundTrip]_vars

-----------------------------------------------------------------------------
(* Every run: either sender on a CSV file, or the validator on one record *)

Init == InitLinkedIn \/ InitWebhook \/ InitValidator

Next == NextLinkedIn \/ NextWebhook \/ NextValidator

Spec == Init /\ [][Next]_vars

-----------------------------------------------------------------------------
(* Properties *)

Range(seq) == {seq[k] : k \in 1..Len(seq)}

\* The rows that entries of failedRecords / successfulEvents refer to
FailedRows ==
  IF sender = "webhook"
    THEN {failedRecords[k].index + 1 : k \in 1..Len(failedRecords)}
    ELSE {failedRecords[k].record : k \in 1..Len(failedRecords)}
SentRows == {successfulEvents[k].record : k \in 1..Len(successfulEvents)}

\* C1: at the end of an uncancelled run of sendRecordsBatch every parsed
\* record has exactly one final outcome, so that sentRecords +
\* failedRecords.length + (number of validation-rejected records) equals
\* totalRecords.
C1_OutcomesAddUp ==
  (sender = "linkedin" /\ pc = "done" /\ isRunning) =>
     sentRecords + Len(failedRecords) + Cardinality(hist.skipped) = Len(csvData)

\* C2: a record rejected by validateEventData is never counted as sent,
\* never stored in successfulEvents and never placed in the failed list
\* (failedRecords / errors), in either sender.
C2_RejectedOnlySkipped ==
  sender \in {"linkedin", "webhook"} =>
     \A row \in hist.skipped : row \notin SentRows /\ row \notin FailedRows

\* C3: a payload builder (constructPayload / constructLinkedInEvent) is never
\* invoked on a record whose email is missing or blank, in the first pass or
\* in the retry pass, in either sender.
C3_BuilderNeedsEmail ==
  /\ sender \in {"linkedin", "webhook"} =>
       \A row \in hist.built \cup Range(inflight.validRows) :
          NonBlank(csvData[row], "email")
  /\ (sender = "validator" /\ probe.stage \in {"payload", "event"}) =>
       NonBlank(probe.record, "email")

\* C3 witness: a retry batch holding a record without email is in flight,
\* built from its other record only
C3_Witness ==
  /\ sender = "linkedin" /\ pass = "retry" /\ pc = "await"
  /\ \E row \in Range(inflight.records) : ~NonBlank(csvData[row], "email")
  /\ Len(inflight.validRows) < Len(inflight.records)

\* The number of network calls of the given pass that carried the row's event
Carried(row, p) ==
  Cardinality({k \in 1..Len(hist.calls) :
                 hist.calls[k].pass = p /\ row \in Range(hist.calls[k].rows)})

\* C4: in an uncancelled run, every record recorded as failed in the first
\* pass is re-submitted exactly once, and no record is carried by more than
\* two network calls.
C4_RetriedExactlyOnce ==
  (sender = "linkedin" /\ pc = "done" /\ isRunning) =>
     /\ \A row \in Range(hist.retried) : Carried(row, "retry") = 1
     /\ \A row \in 1..Len(csvData) :
          Carried(row, "first") + Carried(row, "retry") <= 2

\* C4, amended: in an uncancelled run, every record recorded as failed in the
\* first pass is handed to the retry pass once and is re-submitted exactly
\* once unless validateEventData rejects it, in which case it is not
\* re-submitted; only those records are submitted in the retry pass, and no
\* record is carried by more than one call per pass.
C4_RetriedAtMostOnce ==
  /\ (sender = "linkedin" /\ pc = "done" /\ isRunning) =>
       \A row \in Range(hist.retried) :
          (Carried(row, "retry") = 1) = (row \notin hist.skipped)
  /\ sender = "linkedin" =>
       \A row \in 1..Len(csvData) :
          /\ Carried(row, "first") <= 1
          /\ Carried(row, "retry") <= 1
          /\ Carried(row, "retry") = 1 => row \in Range(hist.retried)
  /\ (sender = "linkedin" /\ pass = "retry") =>
       Cardinality(Range(hist.retried)) = Len(hist.retried)

\* C4 witness: an uncancelled run has ended with a record that failed in the
\* first pass, was re-submitted once and failed again
C4_Witness ==
  /\ sender = "linkedin" /\ pc = "done" /\ isRunning
  /\ \E row \in Range(hist.retried) :
        /\ Carried(row, "first") = 1
        /\ Carried(row, "retry") = 1
        /\ row \in FailedRows

\* The network call an entry of successfulEvents / failedRecords came from
CallOf(entry) ==
  {k \in 1..Len(hist.calls) :
     hist.calls[k].pass = entry.pass /\ hist.calls[k].batchIndex = entry.batchIndex}

\* C5: on a 2xx response the outcome of response element i is booked on the
\* record whose event was element i of the submitted payload: Sent when the
\* status is 201, otherwise Failed with the reported error.
C5_OutcomeOnSubmittedRecord ==
  sender = "linkedin" =>
     /\ \A j \in 1..Len(successfulEvents) :
          \A k \in CallOf(successfulEvents[j]) :
             /\ hist.calls[k].response[successfulEvents[j].eventIndex + 1] = StatusCreated
             /\ hist.calls[k].rows[successfulEvents[j].eventIndex + 1]
                  = successfulEvents[j].record
     /\ \A j \in 1..Len(failedRecords) :
          \A k \in CallOf(failedRecords[j]) :
             hist.calls[k].failure = "none" =>
               /\ hist.calls[k].response[failedRecords[j].eventIndex + 1]
                    = failedRecords[j].error.status
               /\ hist.calls[k].rows[failedRecords[j].eventIndex + 1]
                    = failedRecords[j].record

\* C6: when a call fails as a whole (network error or non-2xx), every record
\* whose event the call carried is appended to failedRecords with the call's
\* status code (or 'Network Error') and message, nothing is counted as sent,
\* and the records failed in the first pass are all handed to the retry pass.
C6_WholeCallFailure ==
  [][/\ (pc = "await" /\ pc' = "loop" /\ sender = "linkedin"
          /\ hist'.calls[Len(hist.calls)].failure # "none") =>
        /\ sentRecords' = sentRecords
        /\ successfulEvents' = successfulEvents
        /\ SubSeq(failedRecords', 1, Len(failedRecords)) = failedRecords
        /\ \A row \in Range(inflight.validRows) :
             \E j \in (Len(failedRecords) + 1)..Len(failedRecords') :
                failedRecords'[j].record = row
        /\ \A j \in (Len(failedRecords) + 1)..Len(failedRecords') :
             /\ failedRecords'[j].error.status = hist'.calls[Len(hist.calls)].failure
             /\ failedRecords'[j].error.status \in FailureStatuses
             /\ failedRecords'[j].error.message = "Request failed"
     /\ (sender = "linkedin" /\ pass = "first" /\ pass' = "retry") =>
        pending' = [k \in 1..Len(failedRecords) |-> failedRecords[k].record]
    ]_vars

\* C6 witness: a first-pass call carrying two events has failed with a
\* network error and both records are in failedRecords
C6_Witness ==
  /\ sender = "linkedin" /\ pass = "first" /\ pc = "loop"
  /\ hist.calls # <<>>
  /\ hist.calls[Len(hist.calls)].failure = "Network Error"
  /\ Len(hist.calls[Len(hist.calls)].rows) = 2
  /\ Range(hist.calls[Len(hist.calls)].rows) \subseteq FailedRows

\* The record has a title, company name or country code but lacks a first or
\* a last name
IncompleteUserInfo(record) ==
  /\ \E f \in {"title", "companyName", "countryCode"} :
        Field(record, f) # <<>> /\ Trim(Field(record, f)) # <<>>
  /\ \/ Trim(Field(record, "firstName")) = <<>>
     \/ Trim(Field(record, "lastName")) = <<>>

\* C7: validateUserInfo yields includeUserInfo = false, with a warning,
\* exactly when the user information is incomplete; in every other case,
\* also when no user-information field is present, it yields true.
C7_IncludeUnlessIncomplete ==
  (sender = "validator" /\ probe.stage = "validated") =>
     /\ probe.userInfo.includeUserInfo = ~IncompleteUserInfo(probe.record)
     /\ probe.userInfo.warning = IncompleteUserInfo(probe.record)

\* C8: whenever a validation result carries includeUserInfo = true, firstName
\* and lastName are both non-empty after trimming in the record.
C8_IncludeImpliesNames ==
  (sender = "validator" /\ probe.stage # "input") =>
     /\ probe.userInfo.includeUserInfo =>
          /\ Trim(Field(probe.record, "firstName")) # <<>>
          /\ Trim(Field(probe.record, "lastName")) # <<>>
     /\ probe.validation.includeUserInfo => probe.userInfo.includeUserInfo

\* C8 witness: a record was accepted with includeUserInfo = true
C8_Witness ==
  /\ sender = "validator" /\ probe.stage = "validated"
  /\ probe.validation.valid /\ probe.validation.includeUserInfo

\* t lies in [now - 90 days, now]
InWindow(t, now) ==
  /\ t.q > now.q - 1 \/ (t.q = now.q - 1 /\ t.r >= now.r)
  /\ t.q < now.q \/ (t.q = now.q /\ t.r <= now.r)

\* Rule 3 applies to the record and its conversionTime is out of the window
RecencyRejects(record, useTime, resetOld, now) ==
  /\ useTime /\ ~resetOld
  /\ Field(record, "conversionTime") # <<>>
  /\ ~parseInt(Field(record, "conversionTime")).nan
  /\ ~InWindow(parseInt(Field(record, "conversionTime")), now)

\* C9: a record with an email and incomplete user information is still
\* accepted (only the recency rule can reject it) and dispatched; its
\* payload holds none of the five user-information fields and still carries
\* the email, raw in the flat shape and hashed in the nested shape.
C9_SuppressedUserInfo ==
  /\ (sender = "validator" /\ probe.stage # "input"
        /\ NonBlank(probe.record, "email") /\ IncompleteUserInfo(probe.record)) =>
       /\ probe.validation.valid =
            ~RecencyRejects(probe.record, useConversionTime,
                            resetOldTimestamps, probe.validatedAt)
       /\ ~probe.validation.includeUserInfo
       /\ probe.stage = "payload" =>
            /\ DOMAIN probe.payload \cap UserInfoFields = {}
            /\ "email" \in DOMAIN probe.payload
            /\ probe.payload["email"] = probe.record["email"]
       /\ probe.stage = "event" =>
            /\ probe.event.userInfo = <<>>
            /\ probe.event.userIds[1].idValue
                 = <<"sha256:">> \o toLowerCase(probe.record["email"])
  /\ (sender \in {"linkedin", "webhook"} /\ pc = "await") =>
       \A k \in 1..Len(inflight.records) :
          LET row == inflight.records[k]
              record == csvData[row]
          IN (NonBlank(record, "email") /\ IncompleteUserInfo(record)
              /\ ~RecencyRejects(record, useConversionTime,
                                 resetOldTimestamps, clock)) =>
               \E i \in 1..Len(inflight.validRows) :
                  /\ inflight.validRows[i] = row
                  /\ IF sender = "webhook"
                       THEN /\ DOMAIN inflight.elements[i] \cap UserInfoFields = {}
                            /\ "email" \in DOMAIN inflight.elements[i]
                       ELSE /\ inflight.elements[i].userInfo = <<>>
                            /\ inflight.elements[i].userIds[1].idValue
                                 = <<"sha256:">> \o toLowerCase(record["email"])

\* C9 witness: the flat payload of a record with a title, no first name and
\* an email has been built
C9_Witness ==
  /\ sender = "validator" /\ probe.stage = "payload"
  /\ IncompleteUserInfo(probe.record)
  /\ Field(probe.record, "lastName") = <<"D">>
  /\ "email" \in DOMAIN probe.payload

\* C10: with useConversionTime set, resetOldTimestamps clear and a
\* conversionTime that parses to an integer t, rule 3 rejects the record if
\* and only if t is outside [now - 90 days, now]: t exactly 90 days before
\* now is accepted, t one millisecond older is rejected, t later than now is
\* rejected.
C10_RecencyWindow ==
  (sender = "validator" /\ probe.stage = "validated"
     /\ useConversionTime /\ ~resetOldTimestamps
     /\ Field(probe.record, "conversionTime") # <<>>
     /\ ~parseInt(Field(probe.record, "conversionTime")).nan) =>
    LET t == parseInt(Field(probe.record, "conversionTime"))
    IN /\ ("conversionTime" \in probe.validation.errors) = ~InWindow(t, clock)
       /\ NonBlank(probe.record, "email") =>
            (probe.validation.valid = InWindow(t, clock))
       /\ (t.q = clock.q - 1 /\ t.r = clock.r) =>
            "conversionTime" \notin probe.validation.errors
       /\ (t.q = clock.q - 1 /\ t.r = clock.r - 1) =>
            "conversionTime" \in probe.validation.errors
       /\ (t.q = clock.q /\ t.r > clock.r) =>
            "conversionTime" \in probe.validation.errors

\* C10 witness: a record stamped exactly 90 days before now was accepted
C10_Witness ==
  /\ sender = "validator" /\ probe.stage = "validated"
  /\ useConversionTime /\ ~resetOldTimestamps
  /\ parseInt(Field(probe.record, "conversionTime")) = Num(clock.q - 1, clock.r)
  /\ probe.validation.valid

\* C11 (as claimed): with useConversionTime and resetOldTimestamps both set,
\* no record is rejected because of its conversionTime, and for a record
\* whose conversionTime is a number outside the 90-day window each builder
\* returns a payload carrying the current time: conversionTime = now as a
\* string in the flat shape, conversionHappenedAt = now in the nested shape.
C11_ResetSubstitutesNow ==
  (sender = "validator" /\ probe.stage # "input"
     /\ useConversionTime /\ resetOldTimestamps) =>
    LET t == parseInt(Field(probe.record, "conversionTime"))
        outside == ~t.nan /\ ~InWindow(t, probe.builtAt)
    IN /\ "conversionTime" \notin probe.validation.errors
       /\ (probe.stage = "payload" /\ outside) =>
            /\ "conversionTime" \in DOMAIN probe.payload
            /\ probe.payload["conversionTime"] = TimeToString(probe.builtAt)
       /\ (probe.stage \in {"event", "threw"} /\ outside) =>
            /\ probe.stage = "event"
            /\ probe.event.conversionHappenedAt = probe.builtAt

\* C12 (as claimed): for an accepted record, whenever useConversionTime is
\* off or the record's conversionTime is empty or not a number,
\* constructLinkedInEvent returns an event whose conversionHappenedAt is the
\* current time, for both values of resetOldTimestamps, and building the
\* events never ends the run.
C12_FallbackToNow ==
  /\ (sender = "validator" /\ probe.stage \in {"event", "threw"}
        /\ (\/ ~useConversionTime
            \/ Field(probe.record, "conversionTime") = <<>>
            \/ parseInt(Field(probe.record, "conversionTime")).nan)) =>
       /\ probe.stage = "event"
       /\ probe.event.conversionHappenedAt = probe.builtAt
  /\ sender = "linkedin" => ~hist.aborted

\* C13 (as claimed): for a record the validator accepted, no payload builder
\* takes the defensive branch of timestamp resolution (useConversionTime set,
\* conversionTime not empty, value not within the window, resetOldTimestamps
\* clear), although validation and construction read the clock separately.
C13_DefensiveBranchUnreached ==
  /\ sender \in {"linkedin", "webhook"} => hist.defensive = {}
  /\ (sender = "validator" /\ probe.stage \in {"payload", "event", "threw"}) =>
       probe.branch # "defensive"

\* The currency pair of the record is incomplete or malformed: one field
\* only, a code that is not three letters, or a value that is not a number
\* >= 0
MalformedCurrency(record) ==
  LET code == Trim(Field(record, "currencyCode"))
      value == parseFloat(Field(record, "conversionValue"))
  IN \/ (code = <<>>) # (Trim(Field(record, "conversionValue")) = <<>>)
     \/ /\ code # <<>> /\ Trim(Field(record, "conversionValue")) # <<>>
        /\ \/ Len(code) # 3
           \/ \E k \in 1..Len(code) : ~IsLower(code[k]) /\ ~IsUpper(code[k])
           \/ value.nan
           \/ value.v < 0

C15_CurrencyTogether ==
  (sender = "validator" /\ probe.stage \in {"payload", "event"}) =>
    LET present == \/ Trim(Field(probe.record, "currencyCode")) # <<>>
                   \/ Trim(Field(probe.record, "conversionValue")) # <<>>
        include == present /\ ~MalformedCurrency(probe.record)
        code == toUpperCase(Trim(Field(probe.record, "currencyCode")))
        amount == AmountToString(parseFloat(Field(probe.record, "conversionValue")).v)
        warned == probe.validation.warnings
                    \cap {"incomplete", "currencyCode", "conversionValue"} # {}
    IN /\ warned = (present /\ ~include)
       /\ probe.stage = "payload" =>
            /\ ("currencyCode" \in DOMAIN probe.payload) = include
            /\ ("conversionValue" \in DOMAIN probe.payload) = include
            /\ include => /\ probe.payload["currencyCode"] = code
                          /\ probe.payload["conversionValue"] = amount
            /\ (Field(probe.record, "currencyCode") = <<"u", "s", "d">>
                /\ Field(probe.record, "conversionValue") = <<"10">>) =>
                 /\ probe.payload["currencyCode"] = <<"U", "S", "D">>
                 /\ probe.payload["conversionValue"] = <<"10">>
       /\ probe.stage = "event" =>
            /\ (probe.event.conversionValue # <<>>) = include
            /\ include => /\ probe.event.conversionValue[1].currencyCode = code
                          /\ probe.event.conversionValue[1].amount = amount

\* C15 witness: the nested event of a record with currency code "usd " and
\* value "10.50" has been built with code "USD"
C15_Witness ==
  /\ sender = "validator" /\ probe.stage = "event"
  /\ Field(probe.record, "currencyCode") = <<"u", "s", "d", " ">>
  /\ Field(probe.record, "conversionValue") = <<"10.50">>
  /\ probe.event.conversionValue # <<>>
  /\ probe.event.conversionValue[1].currencyCode = <<"U", "S", "D">>

\* C16 (as claimed): an uncancelled run of the webhook sender that issued
\* k >= 1 calls has slept exactly k - 1 times, each time for
\* 60000 / maxRequestsPerMinute ms, once after every call except the last.
C16_DelaysBetweenCalls ==
  (sender = "webhook" /\ pc = "done" /\ isRunning /\ hist.calls # <<>>) =>
     /\ Len(hist.delays) = Len(hist.calls) - 1
     /\ \A j \in 1..Len(hist.delays) :
          /\ hist.delays[j].ms * maxRequestsPerMinute = 60000
          /\ hist.delays[j].afterCall = j

\* C17: between the starts of two consecutive loop iterations of
\* sendRecordsBatch (first pass, first pass to retry pass, retry pass) the
\* dispatcher has waited max(0, targetInterval - batchDuration), so that the
\* starts are at least targetInterval apart, and has not waited at all when
\* the batch took at least targetInterval.
C17_RateCeiling ==
  sender = "linkedin" =>
     \A i \in 1..(Len(hist.starts) - 1) :
        LET duration == hist.waits[i].batchDuration
            waited == hist.waits[i].timeToWait
        IN /\ waited = Max(0, 60000 \div maxApiCallsPerMinute - duration)
           /\ hist.starts[i + 1].r - hist.starts[i].r = duration + waited
           /\ hist.starts[i + 1].r - hist.starts[i].r
                >= 60000 \div maxApiCallsPerMinute
           /\ duration >= 60000 \div maxApiCallsPerMinute => waited = 0

\* C17 witness: the retry pass has started right after a first-pass batch
\* that took longer than the target interval, and an earlier batch was
\* followed by a wait
C17_Witness ==
  /\ sender = "linkedin" /\ pass = "retry" /\ pc = "await"
  /\ Len(hist.starts) = 3
  /\ hist.waits[1].timeToWait > 0
  /\ hist.waits[2].batchDuration > 60000 \div maxApiCallsPerMinute
  /\ hist.waits[2].timeToWait = 0

\* The rows submitted in the calls of a pass, in submission order
RECURSIVE Submitted(_, _)
Submitted(p, k) ==
  IF k > Len(hist.calls) THEN <<>>
  ELSE (IF hist.calls[k].pass = p THEN hist.calls[k].rows ELSE <<>>)
         \o Submitted(p, k + 1)

\* C18: the first pass submits the records in CSV row order, batch by batch;
\* a call is issued only when every earlier call has resolved, and no
\* first-pass call follows a retry call; the retry pass submits the failed
\* records in the order in which they were recorded as failed.
C18_DispatchOrder ==
  sender \in {"linkedin", "webhook"} =>
     /\ \A i, j \in 1..Len(Submitted("first", 1)) :
          i < j => Submitted("first", 1)[i] < Submitted("first", 1)[j]
     /\ \A k \in 1..(Len(hist.calls) - 1) :
          /\ hist.calls[k].failure # "pending"
          /\ hist.calls[k].pass = "retry" => hist.calls[k + 1].pass = "retry"
     /\ \A i, j \in 1..Len(Submitted("retry", 1)) :
          i < j =>
            \E a, b \in 1..Len(hist.retried) :
               /\ a < b
               /\ hist.retried[a] = Submitted("retry", 1)[i]
               /\ hist.retried[b] = Submitted("retry", 1)[j]

\* C18 witness: two records that failed in the first pass have both been
\* re-submitted
C18_Witness ==
  /\ sender = "linkedin" /\ pass = "retry"
  /\ Len(hist.retried) >= 2
  /\ Len(Submitted("retry", 1)) >= 2

\* C19: once isRunning is false no further unit or batch is issued, in the
\* first pass or in the retry pass; a call in flight when the flag is
\* cleared still completes and its outcome is recorded.
C19_CooperativeCancel ==
  [][/\ ~isRunning => Len(hist'.calls) = Len(hist.calls)
     /\ (~isRunning /\ pc = "await" /\ pc' # "await") =>
          /\ hist'.calls[Len(hist.calls)].failure # "pending"
          /\ sentRecords' + Len(failedRecords')
               >= sentRecords + Len(failedRecords) + Len(inflight.elements)
     /\ (~isRunning /\ pc = "await") => (pc' = "await" \/ pc' = "loop")
    ]_vars

\* C19 witness: isRunning was cleared while a call was in flight; the call
\* has resolved, and the records that remained were never issued
C19_Witness ==
  /\ sender \in {"linkedin", "webhook"} /\ pc = "done"
  /\ ~isRunning /\ hist.cancelledInFlight
  /\ Len(hist.calls) = 1 /\ hist.calls[1].failure # "pending"
  /\ Len(csvData) = 2 /\ hist.built \cup hist.skipped = {1}

\* C20: the parsed records are exactly the data lines whose number of fields
\* equals the number of header columns, in input order (other lines are
\* dropped without error); totalRecords is the number of parsed records; and
\* parsing fails, before anything is dispatched, when the input has fewer
\* than 2 lines.
C20_ParsedRecords ==
  (sender = "parser" /\ pc # "parse") =>
    LET lines == Split(Trim(probe.content), "\n")
        columns == Len(Split(lines[1], ","))
        matching == {i \in 2..Len(lines) : Len(parseCsvLine(lines[i])) = columns}
    IN /\ (pc = "exit") = (Len(lines) < 2)
       /\ pc = "exit" => /\ csvData = <<>> /\ totalRecords = 0
                         /\ hist.calls = <<>> /\ hist.built = {}
       /\ pc = "parsed" =>
            /\ Len(csvData) = Cardinality(matching)
            /\ totalRecords = Len(csvData)
            /\ {probe.kept[k] : k \in 1..Len(probe.kept)} = matching
            /\ \A j, k \in 1..Len(probe.kept) : j < k => probe.kept[j] < probe.kept[k]
            /\ \A k \in 1..Len(csvData) :
                  \A c \in 1..columns :
                     \E d \in c..columns :
                        /\ Trim(Split(lines[1], ",")[d]) = Trim(Split(lines[1], ",")[c])
                        /\ csvData[k][Trim(Split(lines[1], ",")[c])]
                             = cleanSfdcValue(Trim(parseCsvLine(lines[probe.kept[k]])[d]))

\* C20 witness: a file whose second line has one field too many and whose
\* third line matches the header has been parsed into one record
C20_Witness ==
  /\ sender = "parser" /\ pc = "parsed"
  /\ Len(probe.lines) = 3
  /\ probe.kept = <<3>>
  /\ Len(csvData) = 1 /\ totalRecords = 1

-----------------------------------------------------------------------------
(* The validator over the time of a run *)

\* Rule 3 of validateEventData reads the clock for this record
RecencyRuleApplies(record) ==
  /\ useConversionTime /\ ~resetOldTimestamps
  /\ Field(record, "conversionTime") # <<>>
  /\ ~parseInt(Field(record, "conversionTime")).nan

\* C21 (as stated): two calls of validateEventData on the same record under
\* the same configuration give the same acceptance, the same includeUserInfo
\* flag and the same warnings, whenever in the run they are made.
C21_ValidatorIdempotent ==
  sender = "linkedin" =>
    \A a \in hist.validated : \A b \in hist.validated :
       a.row = b.row =>
         /\ a.result.valid = b.result.valid
         /\ a.result.includeUserInfo = b.result.includeUserInfo
         /\ a.result.warnings = b.result.warnings

\* C21 (amended): two calls of validateEventData on the same record give the
\* same warnings and the same errors other than the conversionTime error; they
\* give the same acceptance and includeUserInfo flag when the calls read the
\* same clock value or rule 3 does not read the clock for the record.
C21_ValidatorIdempotentUpToClock ==
  sender = "linkedin" =>
    \A a \in hist.validated : \A b \in hist.validated :
       a.row = b.row =>
         /\ a.result.warnings = b.result.warnings
         /\ a.result.errors \ {"conversionTime"}
              = b.result.errors \ {"conversionTime"}
         /\ (a.at = b.at \/ ~RecencyRuleApplies(csvData[a.row])) =>
              a.result = b.result

\* The retry pass has validated again, at a later clock reading, a record
\* with a conversionTime where the timestamps are reset, and has accepted it
\* as the first pass did.
C21_Witness ==
  /\ sender = "linkedin" /\ useConversionTime /\ resetOldTimestamps
  /\ \E a \in hist.validated : \E b \in hist.validated :
       /\ a.row = b.row /\ a.at # b.at
       /\ csvData[a.row].conversionTime # <<>>
       /\ a.result.valid /\ b.result.valid

-----------------------------------------------------------------------------
(* WebhookSender.sendAllRecords: the counters at the iteration boundaries *)

\* At an iteration boundary (p is the position, next the row the loop would
\* examine next) the three counters add up to the rows iterated so far
Folded(p, sent, errors, skipped, next) ==
  p \in {"loop", "done"} => sent + Len(errors) + skipped = next - 1

\* C22: in the webhook sender, at every iteration boundary of sendAllRecords
\* sentRecords + errors.length + skippedRecords is the number of records
\* iterated so far; a resolved call adds one to sentRecords or appends one
\* entry (HTTP status or 'Network Error') to errors, never both, before the
\* next record is examined; when an uncancelled run ends the sum is
\* totalRecords.
C22_WebhookLoopInvariant ==
  [][sender = "webhook" =>
       /\ Folded(pc, sentRecords, failedRecords, skippedRecords, pending)
       /\ Folded(pc', sentRecords', failedRecords', skippedRecords', pending')
       /\ (pc = "await" /\ pc' # "await") =>
            LET call == hist'.calls[Len(hist'.calls)]
            IN /\ pc' = "loop" /\ pending' = pending + 1
               /\ skippedRecords' = skippedRecords
               /\ \/ /\ call.failure = "none"
                     /\ sentRecords' = sentRecords + 1
                     /\ failedRecords' = failedRecords
                  \/ /\ call.failure \in {"500", "Network Error"}
                     /\ sentRecords' = sentRecords
                     /\ Len(failedRecords') = Len(failedRecords) + 1
                     /\ SubSeq(failedRecords', 1, Len(failedRecords)) = failedRecords
                     /\ failedRecords'[Len(failedRecords')].status = call.failure
                     /\ failedRecords'[Len(failedRecords')].index = pending - 1
       /\ (pc = "await" /\ pc' = "await") =>
            /\ sentRecords' = sentRecords /\ failedRecords' = failedRecords
            /\ skippedRecords' = skippedRecords /\ pending' = pending
       /\ (pc' = "done" /\ isRunning') =>
            sentRecords' + Len(failedRecords') + skippedRecords' = totalRecords'
  ]_vars

\* An uncancelled webhook run has ended with one record sent, one failed
\* with a network error and none skipped
C22_Witness ==
  /\ sender = "webhook" /\ pc = "done" /\ isRunning
  /\ sentRecords = 1 /\ Len(failedRecords) = 1 /\ skippedRecords = 0
  /\ failedRecords[1].status = "Network Error"
  /\ totalRecords = 2

-----------------------------------------------------------------------------
(* WebhookSender.constructPayload: the conversionTime of the flat payload *)

\* C23: with useConversionTime set, the flat payload built for an accepted
\* record carries a conversionTime: the record's value when it is numeric and
\* within the 90-day window, and the current time in every other case (empty
\* or non-numeric value, out-of-window value with or without reset).
C23_FlatTimestamp ==
  (sender = "validator" /\ probe.stage = "payload" /\ useConversionTime) =>
     LET value == Field(probe.record, "conversionTime")
         t == parseInt(value)
     IN /\ "conversionTime" \in DOMAIN probe.payload
        /\ probe.payload.conversionTime =
             IF value # <<>> /\ ~t.nan /\ isValidConversionTime(t, probe.builtAt)
               THEN value
               ELSE TimeToString(probe.builtAt)

-----------------------------------------------------------------------------
(* One call at a time *)

\* The calls of the history that have not resolved
Unresolved(calls) == {k \in 1..Len(calls) : calls[k].failure = "pending"}

-----------------------------------------------------------------------------
(* Percentages of the progress line and of the summary *)

\* C25: no percentage of displayProgress or of the final summary of either
\* sender is computed with a zero denominator, and the success rate is
\* rendered as 0.0 whenever sent + failed is 0, also when no record was
\* parsed or every record was skipped.
C25_NoDivisionByZero ==
  [][LET processed == sentRecords' + Len(failedRecords')
         shown(rate) == rate.finite /\ (processed = 0 => rate = ZeroPercent)
     IN /\ (sender = "linkedin" /\ pc' = "loop"
              /\ Len(hist'.waits) > Len(hist.waits)) =>
             displayProgress'.progress.finite /\ shown(displayProgress'.successRate)
        /\ (sender = "linkedin" /\ pc' = "done") => shown(SummarySuccessRate')
        /\ (sender = "webhook" /\ pc = "await" /\ pc' = "loop") =>
             /\ WebhookDisplayProgress'.progress.finite
             /\ shown(WebhookDisplayProgress'.successRate)
        /\ (sender = "webhook" /\ pc' = "done") =>
             shown(WebhookSummarySuccessRate')
  ]_vars

-----------------------------------------------------------------------------
(* The records the retry pass submits *)

\* The rows whose own event call k reported failed: every row of a call that
\* failed as a whole, and the rows at the positions of the failed elements
OwnFailures(k) ==
  LET call == hist.calls[k]
  IN IF call.failure # "none" THEN Range(call.rows)
     ELSE {call.rows[j] : j \in {i \in 1..Len(call.rows) :
                                   call.response[i] # StatusCreated}}

\* The rows whose own event call k reported accepted
OwnSuccesses(k) ==
  LET call == hist.calls[k]
  IN IF call.failure # "none" THEN {}
     ELSE {call.rows[j] : j \in {i \in 1..Len(call.rows) :
                                   call.response[i] = StatusCreated}}

\* C26: in the batched sender a record whose event was accepted (201) is not
\* submitted again, and when an uncancelled run has ended the records
\* submitted in the retry pass are exactly those whose own event failed (or
\* whose whole call failed) in the first pass, whatever the batches held.
C26_RetriedOwnFailures ==
  (sender = "linkedin" /\ pc = "done" /\ isRunning) =>
     LET first == {k \in 1..Len(hist.calls) : hist.calls[k].pass = "first"}
         retry == {k \in 1..Len(hist.calls) : hist.calls[k].pass = "retry"}
     IN /\ \A k \in 1..Len(hist.calls) : \A row \in OwnSuccesses(k) :
             \A j \in (k + 1)..Len(hist.calls) : row \notin Range(hist.calls[j].rows)
        /\ UNION {Range(hist.calls[k].rows) : k \in retry}
             = UNION {OwnFailures(k) : k \in first}

-----------------------------------------------------------------------------
(* sentRecords and successfulEvents *)

\* C27: in the batched sender successfulEvents.length equals sentRecords
\* whenever the run is between two network calls (and while one is in
\* flight), and neither ever decreases: successfulEvents only grows at its
\* end, also in the retry pass.
C27_SentEventsCounted ==
  [][sender = "linkedin" =>
       /\ Len(successfulEvents) = sentRecords
       /\ Len(successfulEvents') = sentRecords'
       /\ sentRecords' >= sentRecords
       /\ Len(successfulEvents') >= Len(successfulEvents)
       /\ SubSeq(successfulEvents', 1, Len(successfulEvents)) = successfulEvents
  ]_vars

\* The retry pass has added a sent event to one the first pass recorded
C27_Witness ==
  /\ sender = "linkedin" /\ pass = "retry" /\ pc = "loop"
  /\ sentRecords = 2 /\ Len(successfulEvents) = 2
  /\ successfulEvents[1].pass = "first" /\ successfulEvents[2].pass = "retry"

-----------------------------------------------------------------------------
(* The records that failed in the first pass, at the end of the run *)

\* C28: in the batched sender a record recorded as Failed during the first
\* pass is, when the run has ended, Sent, Skipped or still in failedRecords,
\* also when isRunning was cleared before the retry pass started or while
\* retry batches remained unsent.
C28_FailedNeverDropped ==
  (sender = "linkedin" /\ pc = "done") =>
     \A row \in Range(hist.retried) :
        row \in SentRows \/ row \in hist.skipped \/ row \in FailedRows

-----------------------------------------------------------------------------
(* Generator and parser *)

\* C29: the line generateCSV writes for a row of values without newline or
\* surrounding whitespace is read back by parseCsvLine and cleanSfdcValue as
\* the same number of fields holding the same values.
C29_RoundTrip ==
  (sender = "generator" /\ pc = "read") =>
     /\ Len(probe.fields) = Len(probe.row)
     /\ probe.fields = probe.row

-----------------------------------------------------------------------------
(* Termination of sendRecordsBatch *)

\* The runs of sendRecordsBatch that differ in the records a batch holds and
\* in the responses: files of accepted and rejected records, every batch
\* size, the clock past its first millisecond
TerminationFiles == UNION {[1..n -> {GoodRow, NoEmailRow}] : n \in 0..MaxRecords}

InitTermination ==
  /\ sender = "linkedin"
  /\ csvData \in TerminationFiles
  /\ totalRecords = Len(csvData)
  /\ debugConversionTime = 0
  /\ latencies = NoLatency
  /\ useConversionTime = FALSE
  /\ resetOldTimestamps = FALSE
  /\ eventsPerBatch \in BatchSizes
  /\ clock = Advance(ClockStart, 1)
  /\ isRunning = TRUE
  /\ pc = "loop"
  /\ pass = "first"
  /\ sentRecords = 0
  /\ failedRecords = <<>>
  /\ successfulEvents = <<>>
  /\ pending = [k \in 1..Len(csvData) |-> k]
  /\ batchIndex = 0
  /\ inflight = NoCall
  /\ skippedRecords = 0
  /\ hist = EmptyHistory
  /\ probe = NoProbe

\* The scheduling sendRecordsBatch relies on: a loop that can run its next
\* iteration does, a call in flight resolves (response or failure, at the
\* latest by the timeout of axios.post), and a loop whose condition fails is
\* left.  Nothing obliges isRunning to be cleared.
SpecTermination ==
  /\ InitTermination /\ [][NextLinkedIn]_vars
  /\ WF_vars(SendBatch)
  /\ WF_vars(BatchResponse \/ BatchFailure)
  /\ WF_vars(StartRetry)
  /\ WF_vars(FinishRetry)

\* Math.ceil(n / b)
Ceil(n, b) == (n + b - 1) \div b

\* sendRecordsBatch has returned or has ended with an exception
Terminated == pc \in {"done", "aborted"}

\* C30: for every input of n records, batch size b >= 1 and every pattern of
\* responses and transport failures, sendRecordsBatch terminates, and it
\* issues at most 2 * ceil(n / b) network calls, each carrying between 1 and
\* b events.
C30_Termination ==
  /\ [](/\ Len(hist.calls) <= 2 * Ceil(Len(csvData), eventsPerBatch)
        /\ \A k \in 1..Len(hist.calls) :
             /\ Len(hist.calls[k].rows) >= 1
             /\ Len(hist.calls[k].rows) <= eventsPerBatch)
  /\ <>Terminated

\* A run of two records sent one by one has returned after four calls, two
\* of them in the retry pass
C30_Witness ==
  /\ sender = "linkedin" /\ pc = "done" /\ isRunning
  /\ Len(csvData) = 2 /\ eventsPerBatch = 1
  /\ Len(hist.calls) = 4
  /\ hist.calls[3].pass = "retry" /\ hist.calls[4].pass = "retry"

====
